---- MODULE Spec2Model ----
(***************************************************************************)
(* h5pack: partition planning, partition writing and virtual               *)
(* concatenation.                                                          *)
(*                                                                         *)
(* Three specifications share this module:                                 *)
(*   SpecPlan    - the slice planners (pack, create, audio builder)        *)
(*   SpecVirtual - create_virtual_dataset_from_partitions on any file list *)
(*   Spec        - one run of cmd_pack (h5pack/cli/pack.py)                *)
(***************************************************************************)
EXTENDS Integers, Sequences, FiniteSets, TLC

\* ------------------------------------------------------------------------
\* Bounds
\* ------------------------------------------------------------------------
MaxPlanRows == 6
MaxPlanParts == 7
MaxVParts == 3
MaxLead == 2
MaxRows == 3
MaxPartitions == 2
MaxExisting == 1
MaxFpp == 8
MaxCRows == 10
MaxCParts == 3
MaxCmdInputs == 3
MaxAuFiles == 3
MaxLedger == 3
MaxTaskParts == 11
MaxNameLen == 4
MaxNameParts == 11
MaxAudioRows == 4
MaxRegRows == 5

\* ------------------------------------------------------------------------
\* Generic helpers
\* ------------------------------------------------------------------------
RECURSIVE SumTo(_, _)
\* sum of the first k entries of a sequence of numbers
SumTo(s, k) == IF k = 0 THEN 0 ELSE s[k] + SumTo(s, k - 1)

Range(s) == {s[i] : i \in 1..Len(s)}

\* ------------------------------------------------------------------------
\* Slice planners
\* ------------------------------------------------------------------------
\* a sequence of section sizes as half-open (start, end) ranges
sizes_to_slices(sizes) ==
    [i \in 1..Len(sizes) |-> <<SumTo(sizes, i - 1), SumTo(sizes, i)>>]

\* variant: the whole remainder goes to the last section
array_split_remainder_last(total, n) ==
    sizes_to_slices(
        [i \in 1..n |-> (total \div n) + (IF i = n THEN total % n ELSE 0)])

\* np.array_split(files, indices_or_sections=n): the first (total mod n)
\* sections get one element more than the others
array_split(total, n) ==
    sizes_to_slices(
        [i \in 1..n |-> (total \div n) + (IF i <= total % n THEN 1 ELSE 0)])

\* core.utils.total_to_list_slices(total, slices): raises when the slices
\* outnumber the rows, else an even split, larger slices first
total_to_list_slices(total, slices) ==
    IF slices < 1 \/ slices > total
    THEN [ok |-> FALSE, slices |-> <<>>]
    ELSE [ok |-> TRUE,
          slices |-> sizes_to_slices(
              [i \in 1..slices |->
                  (total \div slices) + (IF i <= total % slices THEN 1 ELSE 0)])]

\* variant: the guard also rejects one partition per file
create_partition_specs_strict(num_files, partitions) ==
    IF partitions >= num_files
    THEN [ok |-> FALSE, slices |-> <<>>]
    ELSE [ok |-> TRUE, slices |-> array_split(num_files, partitions)]

\* cli/create.py create_partition_specs: exit_error when the partitions
\* outnumber the files, else np.array_split
create_partition_specs(num_files, partitions) ==
    IF partitions > num_files
    THEN [ok |-> FALSE, slices |-> <<>>]
    ELSE [ok |-> TRUE, slices |-> array_split(num_files, partitions)]

\* cli/builders/audio.py AudioDatasetBuilder.create_partition_specs
builder_create_partition_specs(num_files, num_partitions) ==
    IF num_partitions > num_files
    THEN [ok |-> FALSE, slices |-> <<>>]
    ELSE [ok |-> TRUE, slices |-> array_split(num_files, num_partitions)]

\* ------------------------------------------------------------------------
\* State
\* ------------------------------------------------------------------------
\* slice planning
VARIABLES planner, plan_total, plan_n, plan_fpp, plan_pc, plan_slices,
          plan_written
\* virtual build
VARIABLES vparts, vout, vpc, verror, vidx, vopened, virtual_specs,
          accum_idx, partition_specs, layouts
\* the virtual command and the files the build writes
VARIABLES vinput, vout_path, vuser_attrs, vchanged, vattrs

\* one run of cmd_pack
VARIABLES total_rows, num_partitions, workers, overwrite, skip_validation,
          field_status, existing, create_virtual, skip_checksum,
          pc, error, slices, files, ledger, virtual_sources,
          tasks, queue, wstate, wpos, seq_idx, finished_jobs,
          partition_filenames

\* the audio validator, encoder and extractor
VARIABLES au_files, au_pc, au_idx, au_observed_fs, au_error, au_examined,
          au_group, au_unpacked
\* checksum verification
VARIABLES ck_lines, ck_pc, ck_idx, ck_report, ck_error
\* the files a ledger is recorded over, the command's input and the
\* folder the ledger is saved to
VARIABLES ck_tree, ck_input, ck_save_dir
\* the file paths of a pack run
VARIABLES nm_output, nm_n, nm_pc, nm_partition_files, nm_virtual_file
\* one field packed through the parser registry and unpacked again
VARIABLES rg_dtype, rg_parser, rg_rows, rg_pc, rg_dataset, rg_error

plan_vars == <<planner, plan_total, plan_n, plan_fpp, plan_pc, plan_slices,
               plan_written>>

virt_vars == <<vparts, vout, vpc, verror, vidx, vopened, virtual_specs,
               accum_idx, partition_specs, layouts, vinput, vout_path,
               vuser_attrs, vchanged, vattrs>>

pack_args == <<total_rows, num_partitions, workers, overwrite,
               skip_validation, field_status, existing>>

pack_vars == <<pack_args, create_virtual, skip_checksum, pc, error, slices,
               files, ledger, virtual_sources, tasks, queue, wstate, wpos,
               seq_idx, finished_jobs, partition_filenames>>

audio_vars == <<au_files, au_pc, au_idx, au_observed_fs, au_error,
                au_examined, au_group, au_unpacked>>

ck_vars == <<ck_lines, ck_pc, ck_idx, ck_report, ck_error, ck_tree, ck_input,
            ck_save_dir>>

name_vars == <<nm_output, nm_n, nm_pc, nm_partition_files, nm_virtual_file>>

reg_vars == <<rg_dtype, rg_parser, rg_rows, rg_pc, rg_dataset, rg_error>>

data_vars == <<audio_vars, ck_vars, name_vars, reg_vars>>

vars == <<plan_vars, virt_vars, pack_vars, data_vars>>

\* a specification leaves the state of the other ones at rest
IdlePlan ==
    /\ planner = "none"
    /\ plan_total = 0
    /\ plan_n = 0
    /\ plan_fpp = 0
    /\ plan_pc = "idle"
    /\ plan_slices = <<>>
    /\ plan_written = 0

IdleVirtual ==
    /\ vparts = <<>>
    /\ vout = "absent"
    /\ vpc = "idle"
    /\ verror = [kind |-> "none", at |-> 0]
    /\ vidx = 0
    /\ vopened = {}
    /\ virtual_specs = <<>>
    /\ accum_idx = <<>>
    /\ partition_specs = <<>>
    /\ layouts = <<>>
    /\ vinput = <<>>
    /\ vout_path = 0
    /\ vuser_attrs = "none"
    /\ vchanged = {}
    /\ vattrs = {}

IdleAudio ==
    /\ au_files = <<>>
    /\ au_pc = "idle"
    /\ au_idx = 0
    /\ au_observed_fs = <<>>
    /\ au_error = [kind |-> "none", at |-> 0, expected |-> 0, found |-> 0]
    /\ au_examined = {}
    /\ au_group = <<>>
    /\ au_unpacked = <<>>

IdleChecksum ==
    /\ ck_lines = <<>>
    /\ ck_pc = "idle"
    /\ ck_idx = 0
    /\ ck_report = <<>>
    /\ ck_error = 0
    /\ ck_tree = {}
    /\ ck_input = "none"
    /\ ck_save_dir = "none"

IdleNames ==
    /\ nm_output = <<>>
    /\ nm_n = 0
    /\ nm_pc = "idle"
    /\ nm_partition_files = <<>>
    /\ nm_virtual_file = <<>>

IdleRegistry ==
    /\ rg_dtype = "none"
    /\ rg_parser = "none"
    /\ rg_rows = 0
    /\ rg_pc = "idle"
    /\ rg_dataset = <<>>
    /\ rg_error = "none"

IdleData == IdleAudio /\ IdleChecksum /\ IdleNames /\ IdleRegistry

IdlePack ==
    /\ total_rows = 0
    /\ num_partitions = 0
    /\ workers = 1
    /\ overwrite = FALSE
    /\ skip_validation = FALSE
    /\ field_status = <<>>
    /\ existing = {}
    /\ create_virtual = "unread"
    /\ skip_checksum = "unread"
    /\ pc = "idle"
    /\ error = [kind |-> "none", at |-> 0]
    /\ slices = <<>>
    /\ files = <<>>
    /\ ledger = <<>>
    /\ virtual_sources = <<>>
    /\ tasks = <<>>
    /\ queue = <<>>
    /\ wstate = <<>>
    /\ wpos = <<>>
    /\ seq_idx = 0
    /\ finished_jobs = {}
    /\ partition_filenames = <<>>

Planners == {"pack", "create", "builder"}

InitPlan ==
    /\ planner \in Planners
    /\ plan_total \in 0..MaxPlanRows
    /\ plan_n \in 1..MaxPlanParts
    /\ plan_fpp = 0
    /\ plan_pc = "start"
    /\ plan_slices = <<>>
    /\ plan_written = 0
    /\ IdleVirtual
    /\ IdlePack
    /\ IdleData

\* the outcome of one planner call, as the command handles it
PlanOutcome(r) ==
    /\ plan_pc' = IF r.ok THEN "planned" ELSE "config_error"
    /\ plan_slices' = r.slices
    /\ UNCHANGED <<planner, plan_total, plan_n, plan_fpp, plan_written>>
    /\ UNCHANGED <<virt_vars, pack_vars, data_vars>>

\* cli/pack.py: slices of a field from total_to_list_slices, any exception
\* ends the run through exit_error
PlanPack ==
    /\ planner = "pack"
    /\ plan_pc = "start"
    /\ PlanOutcome(total_to_list_slices(plan_total, plan_n))

\* cli/create.py create_partitions -> create_partition_specs
PlanCreate ==
    /\ planner = "create"
    /\ plan_pc = "start"
    /\ PlanOutcome(create_partition_specs(plan_total, plan_n))

\* cli/builders/audio.py create_partitions -> create_partition_specs
PlanBuilder ==
    /\ planner = "builder"
    /\ plan_pc = "start"
    /\ PlanOutcome(builder_create_partition_specs(plan_total, plan_n))

\* create / builder: the partition files are written one per spec, in order,
\* once the specs exist
PlanWrite ==
    /\ planner \in {"create", "builder"}
    /\ plan_pc = "planned"
    /\ plan_written < Len(plan_slices)
    /\ plan_written' = plan_written + 1
    /\ UNCHANGED <<planner, plan_total, plan_n, plan_fpp, plan_pc, plan_slices>>
    /\ UNCHANGED <<virt_vars, pack_vars, data_vars>>

NextPlan == PlanPack \/ PlanCreate \/ PlanBuilder \/ PlanWrite

SpecPlan == InitPlan /\ [][NextPlan]_vars

\* variant: the quotient is rounded down
math_ceil_floor(a, b) == a \div b

\* math.ceil(a / b) for a >= 0 and b >= 1
math_ceil(a, b) == IF a % b = 0 THEN a \div b ELSE (a \div b) + 1

\* cmd_pack with --files-per-partition: args.partitions is None and the
\* number of partitions is derived from the rows of the table
InitRows ==
    /\ planner = "pack"
    /\ plan_total \in 0..MaxPlanRows
    /\ plan_n = 0
    /\ plan_fpp \in 1..MaxFpp
    /\ plan_pc = "start"
    /\ plan_slices = <<>>
    /\ plan_written = 0
    /\ IdleVirtual
    /\ IdlePack
    /\ IdleData

\* cli/pack.py lines 143-164 with args.files_per_partition set:
\* num_partitions = math.ceil(len(data_df) / args.files_per_partition),
\* then total_to_list_slices for that many slices
PlanPackRows ==
    /\ planner = "pack"
    /\ plan_pc = "start"
    /\ plan_fpp # 0
    /\ LET n == math_ceil(plan_total, plan_fpp)
           r == total_to_list_slices(plan_total, n)
       IN
       /\ plan_n' = n
       /\ plan_pc' = IF r.ok THEN "planned" ELSE "config_error"
       /\ plan_slices' = r.slices
    /\ UNCHANGED <<planner, plan_total, plan_fpp, plan_written>>
    /\ UNCHANGED <<virt_vars, pack_vars, data_vars>>

NextRows == PlanPackRows

SpecRows == InitRows /\ [][NextRows]_vars

\* ------------------------------------------------------------------------
\* Properties of the slice planners (SpecPlan)
\* ------------------------------------------------------------------------
SliceSize(sl) == sl[2] - sl[1]

PlanReturned == plan_pc \in {"planned", "config_error"}

\* C1: for total_rows >= num_partitions >= 1 every planner returns exactly
\* num_partitions half-open ranges, the first starting at 0, each ending
\* where the next starts, the last ending at total_rows, and any two sizes
\* differing by at most 1.
C1_SlicesCoverEvenly ==
    (PlanReturned /\ plan_total >= plan_n /\ plan_n >= 1) =>
        /\ plan_pc = "planned"
        /\ Len(plan_slices) = plan_n
        /\ plan_slices[1][1] = 0
        /\ \A i \in 1..(plan_n - 1) : plan_slices[i][2] = plan_slices[i + 1][1]
        /\ plan_slices[plan_n][2] = plan_total
        /\ \A i \in 1..plan_n : plan_slices[i][1] <= plan_slices[i][2]
        /\ \A i, j \in 1..plan_n :
               SliceSize(plan_slices[i]) - SliceSize(plan_slices[j]) <= 1

\* five rows in three partitions: sizes 2, 2, 1
C1_Witness ==
    /\ planner = "create"
    /\ plan_pc = "planned"
    /\ plan_total = 5
    /\ plan_n = 3
    /\ plan_slices = << <<0, 2>>, <<2, 4>>, <<4, 5>> >>

\* C10: planning with num_partitions = total_rows succeeds and gives every
\* partition exactly one row; planning with num_partitions > total_rows
\* ends in a configuration error and no partition file is created.
C10_PartitionCountBoundary ==
    PlanReturned =>
        /\ (plan_n = plan_total) =>
               /\ plan_pc = "planned"
               /\ Len(plan_slices) = plan_n
               /\ \A i \in 1..plan_n : SliceSize(plan_slices[i]) = 1
        /\ (plan_n > plan_total) =>
               /\ plan_pc = "config_error"
               /\ plan_slices = <<>>
               /\ plan_written = 0

\* one row per partition, all three partition files written
C10_Witness ==
    /\ planner = "builder"
    /\ plan_pc = "planned"
    /\ plan_n = 3
    /\ plan_total = 3
    /\ plan_written = 3

\* the least n with n * r >= total
CeilOf(total, r) ==
    CHOOSE n \in 0..total : n * r >= total /\ \A m \in 0..(n - 1) : m * r < total

\* C11: given r >= 1 rows per partition for a table of total_rows >= 1,
\* pack plans ceil(total_rows / r) partitions and no planned slice holds
\* more than r rows (SpecRows).
C11_RowsPerPartitionBound ==
    (PlanReturned /\ plan_fpp >= 1 /\ plan_total >= 1) =>
        /\ plan_pc = "planned"
        /\ plan_n = CeilOf(plan_total, plan_fpp)
        /\ Len(plan_slices) = plan_n
        /\ \A i \in 1..plan_n : SliceSize(plan_slices[i]) <= plan_fpp

\* five rows, two rows per partition: three partitions of 2, 2 and 1 rows
C11_Witness ==
    /\ plan_pc = "planned"
    /\ plan_total = 5
    /\ plan_fpp = 2
    /\ plan_n = 3
    /\ plan_slices = << <<0, 2>>, <<2, 4>>, <<4, 5>> >>

\* ------------------------------------------------------------------------
\* Virtual concatenation: cli/utils.py create_virtual_dataset_from_partitions
\* ------------------------------------------------------------------------
\* the datasets of the "data" group, in the order h5py iterates them
FieldOrder == <<"x", "y">>

FieldNames == Range(FieldOrder)

NoDataset == [shape |-> <<>>, dtype |-> "none"]

Leads == 1..MaxLead

\* the "x" field: 2-D float32 of width 2 with any row count, and one-row
\* datasets of another width, of another dtype, and ragged (1-D)
XDatasets ==
    {[shape |-> <<rows, 2>>, dtype |-> "float32"] : rows \in Leads} \cup
    {[shape |-> <<1, 3>>, dtype |-> "float32"],
     [shape |-> <<1, 2>>, dtype |-> "float64"],
     [shape |-> <<1>>, dtype |-> "vlen_float32"]}

\* the "y" field, when the file holds it, has as many rows as "x"
YDatasets(dx) ==
    {[shape |-> <<IF dx = NoDataset THEN 1 ELSE dx.shape[1]>>, dtype |-> "str"]}

\* the paths a partition list can name: .h5 files with any mix of the two
\* fields, a path that does not exist, a file without the .h5 extension
H5Files ==
    UNION {
        {[kind |-> "h5", data |-> [f \in FieldNames |-> IF f = "x" THEN dx ELSE dy]] :
            dy \in YDatasets(dx) \cup {NoDataset}} :
        dx \in XDatasets \cup {NoDataset}}

NoFields == [f \in FieldNames |-> NoDataset]

BadPaths == {[kind |-> "missing", data |-> NoFields],
             [kind |-> "not_h5", data |-> NoFields]}

\* core.guards.is_file_with_ext(partition, ext=".h5")
is_file_with_ext(p) == p.kind = "h5"

\* core.utils.stack_shape(a, b, axis=0): the shapes must agree in rank and
\* in every dimension but axis 0, whose lengths are added
stack_shape(a, b) ==
    IF Len(a) # Len(b) \/ Tail(a) # Tail(b)
    THEN [ok |-> FALSE, shape |-> <<>>]
    ELSE [ok |-> TRUE, shape |-> <<a[1] + b[1]>> \o Tail(a)]

\* variant: trailing dimensions taken from the first partition, unchecked
virtual_shape_first_wins(seen, shape, new_shape) ==
    IF ~seen THEN [ok |-> TRUE, shape |-> new_shape]
    ELSE [ok |-> TRUE, shape |-> <<shape[1] + new_shape[1]>> \o Tail(shape)]

\* the running shape of a virtual field: the first shape seen, then stacked
virtual_shape(seen, shape, new_shape) ==
    IF ~seen THEN [ok |-> TRUE, shape |-> new_shape]
    ELSE stack_shape(shape, new_shape)

\* variant: the offset counter is never advanced
next_accum_idx_stuck(acc, shape) == acc

\* accum_idx[field_name] + field_data.shape[0]
next_accum_idx(acc, shape) == acc + shape[1]

NoVirtualField == [seen |-> FALSE, dtype |-> "none", shape |-> <<>>]

NoPartitionField ==
    [present |-> FALSE, dtype |-> "none", shape |-> <<>>,
     start_idx |-> 0, end_idx |-> 0]

NoError == [kind |-> "none", at |-> 0]

InitVirtual ==
    /\ \E n \in 1..MaxVParts : vparts \in [1..n -> H5Files \cup BadPaths]
    /\ vout \in {"absent", "old"}
    /\ vpc = "start"
    /\ verror = NoError
    /\ vidx = 1
    /\ vopened = {}
    /\ virtual_specs = [f \in FieldNames |-> NoVirtualField]
    /\ accum_idx = [f \in FieldNames |-> 0]
    /\ partition_specs = <<>>
    /\ layouts = [f \in FieldNames |-> <<>>]
    \* called as cmd_pack calls it: no attrs, an output that is no partition
    /\ vinput = <<>>
    /\ vout_path = 0
    /\ vuser_attrs = "none"
    /\ vchanged = {}
    /\ vattrs = {}
    /\ IdlePlan
    /\ IdlePack
    /\ IdleData

VFail(kind, at) ==
    /\ vpc' = "error"
    /\ verror' = [kind |-> kind, at |-> at]

\* variant: no check of the paths before the partitions are opened
VCheckSkipped ==
    /\ vpc = "start"
    /\ vpc' = "scan"
    /\ UNCHANGED <<vparts, vout, verror, vidx, vopened, virtual_specs,
                   accum_idx, partition_specs, layouts>>
    /\ UNCHANGED <<vinput, vout_path, vuser_attrs, vchanged, vattrs>>
    /\ UNCHANGED <<plan_vars, pack_vars, data_vars>>

\* lines 156-159: every path is checked before anything else, exit_error
\* at the first that is not an existing .h5 file
VCheck ==
    /\ vpc = "start"
    /\ LET bad == {i \in 1..Len(vparts) : ~is_file_with_ext(vparts[i])} IN
       IF bad # {}
       THEN VFail("invalid_partition", CHOOSE i \in bad : \A j \in bad : i <= j)
       ELSE /\ vpc' = IF Len(vparts) = 0 THEN "layout" ELSE "scan"
            /\ verror' = verror
    /\ UNCHANGED <<vparts, vout, vidx, vopened, virtual_specs,
                   accum_idx, partition_specs, layouts>>
    /\ UNCHANGED <<vinput, vout_path, vuser_attrs, vchanged, vattrs>>
    /\ UNCHANGED <<plan_vars, pack_vars, data_vars>>

\* lines 165-212, one partition: open it read-only, and for each field it
\* holds update the virtual shape, record the field's range, advance the
\* field's offset counter
VScan ==
    /\ vpc = "scan"
    /\ vidx <= Len(vparts)
    /\ LET p == vparts[vidx]
           here == {f \in FieldNames : p.data[f] # NoDataset}
           shp == [f \in FieldNames |->
                      virtual_shape(virtual_specs[f].seen,
                                    virtual_specs[f].shape, p.data[f].shape)]
       IN
       IF p.kind # "h5"
       THEN \* h5py.File raises on a path it cannot open
            /\ VFail("open_failed", vidx)
            /\ UNCHANGED <<vopened, virtual_specs, accum_idx,
                           partition_specs, vidx>>
       ELSE
         /\ vopened' = vopened \cup {vidx}
         /\ IF \E f \in here : ~shp[f].ok
            THEN /\ VFail("incompatible", vidx)
                 /\ UNCHANGED <<virtual_specs, accum_idx, partition_specs, vidx>>
            ELSE
              /\ virtual_specs' =
                   [f \in FieldNames |->
                      IF f \notin here THEN virtual_specs[f]
                      ELSE [seen |-> TRUE,
                            dtype |-> IF virtual_specs[f].seen
                                      THEN virtual_specs[f].dtype
                                      ELSE p.data[f].dtype,
                            shape |-> shp[f].shape]]
              /\ partition_specs' = Append(partition_specs,
                   [f \in FieldNames |->
                      IF f \notin here THEN NoPartitionField
                      ELSE [present |-> TRUE,
                            dtype |-> p.data[f].dtype,
                            shape |-> p.data[f].shape,
                            start_idx |-> accum_idx[f],
                            end_idx |-> accum_idx[f] + p.data[f].shape[1]]])
              /\ accum_idx' =
                   [f \in FieldNames |->
                      IF f \notin here THEN accum_idx[f]
                      ELSE next_accum_idx(accum_idx[f], p.data[f].shape)]
              /\ vidx' = vidx + 1
              /\ vpc' = IF vidx = Len(vparts) THEN "layout" ELSE "scan"
              /\ verror' = verror
    /\ UNCHANGED <<vparts, vout, layouts>>
    /\ UNCHANGED <<vinput, vout_path, vuser_attrs, vchanged, vattrs>>
    /\ UNCHANGED <<plan_vars, pack_vars, data_vars>>

\* variant: a partition without the field contributes an empty range
VLayoutLenient ==
    /\ vpc = "layout"
    /\ layouts' =
         [f \in FieldNames |->
            IF ~virtual_specs[f].seen THEN <<>>
            ELSE [i \in 1..Len(partition_specs) |->
                    [src |-> i,
                     start_idx |-> partition_specs[i][f].start_idx,
                     end_idx |-> partition_specs[i][f].end_idx]]]
    /\ vpc' = "write"
    /\ verror' = verror
    /\ UNCHANGED <<vparts, vout, vidx, vopened, virtual_specs, accum_idx,
                   partition_specs>>
    /\ UNCHANGED <<vinput, vout_path, vuser_attrs, vchanged, vattrs>>
    /\ UNCHANGED <<plan_vars, pack_vars, data_vars>>

\* lines 214-233: one layout per virtual field, one source per partition;
\* specs["fields"][field_name] raises KeyError for a partition without it
VLayout ==
    /\ vpc = "layout"
    /\ LET fields == {f \in FieldNames : virtual_specs[f].seen}
           lacking == {f \in fields :
                          \E i \in 1..Len(partition_specs) :
                              ~partition_specs[i][f].present}
       IN
       IF lacking # {}
       THEN /\ VFail("key_error", 0)
            /\ UNCHANGED layouts
       ELSE /\ layouts' =
                 [f \in FieldNames |->
                    IF f \notin fields THEN <<>>
                    ELSE [i \in 1..Len(partition_specs) |->
                            [src |-> i,
                             start_idx |-> partition_specs[i][f].start_idx,
                             end_idx |-> partition_specs[i][f].end_idx]]]
            /\ vpc' = "write"
            /\ verror' = verror
    /\ UNCHANGED <<vparts, vout, vidx, vopened, virtual_specs, accum_idx,
                   partition_specs>>
    /\ UNCHANGED <<vinput, vout_path, vuser_attrs, vchanged, vattrs>>
    /\ UNCHANGED <<plan_vars, pack_vars, data_vars>>

\* the root attributes pack gives a partition file (cli/pack.py 179-191)
partition_root_attrs(p) == {"producer", "creation_date"}

\* the attrs argument as a set of keys
caller_attrs(a) == IF a = "note" THEN {"note"} ELSE {}

\* lines 250-265: the root attributes of the first partition, then the
\* caller's, then creation_date, source and producer
virtual_root_attrs(first, extra) ==
    first \cup extra \cup {"creation_date", "source", "producer"}

\* lines 235-265: the output file is opened with mode "w", which truncates
\* whatever file has that path, and filled; partition_specs[0] raises
\* IndexError when the partition list is empty
VWrite ==
    /\ vpc = "write"
    /\ vchanged' = IF vout_path # 0 THEN {vout_path} ELSE {}
    /\ IF Len(partition_specs) = 0
       THEN /\ vout' = "partial"
            /\ vattrs' = {}
            /\ VFail("index_error", 0)
       ELSE /\ vout' = "virtual"
            /\ vattrs' = virtual_root_attrs(partition_root_attrs(vparts[1]),
                                            caller_attrs(vuser_attrs))
            /\ vpc' = "done"
            /\ verror' = verror
    /\ UNCHANGED <<vparts, vidx, vopened, virtual_specs, accum_idx,
                   partition_specs, layouts>>
    /\ UNCHANGED <<vinput, vout_path, vuser_attrs>>
    /\ UNCHANGED <<plan_vars, pack_vars, data_vars>>

NextVirtual == VCheck \/ VScan \/ VLayout \/ VWrite

SpecVirtual == InitVirtual /\ [][NextVirtual]_vars

\* ------------------------------------------------------------------------
\* Properties of the virtual build (SpecVirtual)
\* ------------------------------------------------------------------------
VTerminal == vpc \in {"done", "error"}

Holds(i, f) == vparts[i].data[f] # NoDataset

LeadOf(i, f) == vparts[i].data[f].shape[1]

\* C2: for every partition list the build accepts and every field, the
\* recorded ranges start at 0 in the first partition, each ends where the
\* next starts, and the last ends at the virtual field's leading dimension,
\* which is the sum of the partitions' leading dimensions.
C2_RangesTileVirtualField ==
    (vpc \in {"write", "done"}) =>
        \A f \in FieldNames : virtual_specs[f].seen =>
            LET n == Len(vparts)
                leads == [i \in 1..n |-> LeadOf(i, f)]
            IN
            /\ Len(partition_specs) = n
            /\ partition_specs[1][f].start_idx = 0
            /\ \A i \in 1..(n - 1) :
                   partition_specs[i][f].end_idx =
                       partition_specs[i + 1][f].start_idx
            /\ \A i \in 1..n :
                   partition_specs[i][f].end_idx -
                       partition_specs[i][f].start_idx = leads[i]
            /\ partition_specs[n][f].end_idx = virtual_specs[f].shape[1]
            /\ virtual_specs[f].shape[1] = SumTo(leads, n)
            /\ \A i \in 1..n :
                   /\ layouts[f][i].start_idx = partition_specs[i][f].start_idx
                   /\ layouts[f][i].end_idx = partition_specs[i][f].end_idx

\* three partitions of 2, 1 and 2 rows holding both fields
C2_Witness ==
    /\ vpc = "done"
    /\ Len(vparts) = 3
    /\ virtual_specs["x"].shape = <<5, 2>>
    /\ virtual_specs["y"].shape = <<5>>
    /\ partition_specs[3]["x"].start_idx = 3

\* ------------------------------------------------------------------------
\* The virtual command: cli/virtual.py cmd_virtual (SpecVirtualCmd)
\* ------------------------------------------------------------------------
\* what args.input can name: partitions as pack writes them, and a path
\* that is neither an .h5 file nor a folder
CmdPaths ==
    {[kind |-> "h5",
      data |-> [f \in FieldNames |->
                  IF f = "x" THEN [shape |-> <<rows, 2>>, dtype |-> "float32"]
                  ELSE [shape |-> <<rows>>, dtype |-> "str"]]] :
        rows \in Leads}
    \cup {[kind |-> "missing", data |-> NoFields]}

\* vout_path: 0 when args.output names none of the inputs, else the
\* position of the input that add_extension(args.output) names
InitVirtualCmd ==
    /\ \E n \in 1..MaxCmdInputs : vinput \in [1..n -> CmdPaths]
    /\ vout_path \in {i \in 0..Len(vinput) :
                          i # 0 => is_file_with_ext(vinput[i])}
    /\ vout \in IF vout_path # 0 THEN {"old"} ELSE {"absent", "old"}
    /\ vuser_attrs \in {"none", "odd", "note"}
    /\ vpc = "cmd"
    /\ vparts = <<>>
    /\ verror = NoError
    /\ vidx = 1
    /\ vopened = {}
    /\ virtual_specs = [f \in FieldNames |-> NoVirtualField]
    /\ accum_idx = [f \in FieldNames |-> 0]
    /\ partition_specs = <<>>
    /\ layouts = [f \in FieldNames |-> <<>>]
    /\ vchanged = {}
    /\ vattrs = {}
    /\ IdlePlan
    /\ IdlePack
    /\ IdleData

RECURSIVE collected(_, _)
\* lines 74-83: the positions of args.input that are .h5 files, in order
collected(inp, i) ==
    IF i > Len(inp) THEN <<>>
    ELSE (IF is_file_with_ext(inp[i]) THEN <<i>> ELSE <<>>)
         \o collected(inp, i + 1)

\* lines 94-118: --select keeps the files its pattern matches, --filter
\* drops them; a pattern here matches the first collected file only
apply_patterns(h5, select, filter) ==
    LET picked == IF select = "first" THEN <<Head(h5)>> ELSE h5
    IN IF filter = "first"
       THEN SelectSeq(picked, LAMBDA i : i # Head(h5))
       ELSE picked

\* cmd_virtual up to its call of create_virtual_dataset_from_partitions
CmdCollect ==
    /\ vpc = "cmd"
    /\ \E select, filter \in {"none", "first"} : \E go \in BOOLEAN :
         LET h5 == collected(vinput, 1) IN
         IF vuser_attrs = "odd"
         THEN VFail("attrs_odd", 0) /\ UNCHANGED <<vparts, vout_path>>
         ELSE IF h5 = <<>>
         THEN VFail("no_files", 0) /\ UNCHANGED <<vparts, vout_path>>
         ELSE IF ~go
         THEN VFail("declined", 0) /\ UNCHANGED <<vparts, vout_path>>
         ELSE LET kept == apply_patterns(h5, select, filter) IN
              /\ vparts' = [i \in 1..Len(kept) |-> vinput[kept[i]]]
              /\ vout_path' =
                     IF \E i \in 1..Len(kept) : kept[i] = vout_path
                     THEN CHOOSE i \in 1..Len(kept) : kept[i] = vout_path
                     ELSE 0
              /\ vpc' = "start"
              /\ verror' = verror
    /\ UNCHANGED <<vout, vidx, vopened, virtual_specs, accum_idx,
                   partition_specs, layouts, vinput, vuser_attrs, vchanged,
                   vattrs>>
    /\ UNCHANGED <<plan_vars, pack_vars, data_vars>>

NextVirtualCmd == CmdCollect \/ VCheck \/ VScan \/ VLayout \/ VWrite

SpecVirtualCmd == InitVirtualCmd /\ [][NextVirtualCmd]_vars

\* C13: a virtual build leaves every input partition file as it was, for
\* every input list and output path the virtual command accepts: the only
\* file written is the output, which is none of the inputs
C13_InputsUnchanged ==
    \A i \in 1..Len(vparts) : i \notin vchanged

MarkerAttr == "is_virtual"

\* C14: every file the virtual build writes carries in its root attributes
\* the marker of a virtual view (the attribute the info command looks up),
\* the first partition's attributes, the caller's extra attributes, a
\* creation date and the source list
C14_VirtualMarkerWritten ==
    (vout = "virtual") =>
        /\ MarkerAttr \in vattrs
        /\ partition_root_attrs(vparts[1]) \subseteq vattrs
        /\ caller_attrs(vuser_attrs) \subseteq vattrs
        /\ {"creation_date", "source"} \subseteq vattrs

\* ------------------------------------------------------------------------
\* Pack, then virtual concatenation of what pack wrote (SpecConcat)
\* ------------------------------------------------------------------------
InitConcat ==
    /\ planner = "pack"
    /\ plan_total \in 1..MaxCRows
    /\ plan_n \in 1..MaxCParts
    /\ plan_fpp = 0
    /\ plan_pc = "start"
    /\ plan_slices = <<>>
    /\ plan_written = 0
    /\ IdleVirtual
    /\ IdlePack
    /\ IdleData

AllOrders(n) ==
    {o \in [1..n -> 1..n] : \A i, j \in 1..n : o[i] = o[j] => i = j}

\* the order in which cmd_pack appends the partitions to
\* partition_filenames: by index when sequential (lines 249-285), as the
\* jobs are found ready when parallel (lines 309-319)
collection_orders(n, parallel) ==
    IF parallel THEN AllOrders(n) ELSE {[i \in 1..n |-> i]}

\* the file written for one slice (parsers._as_audiodtype, fixed length):
\* field "x" of shape (rows, samples) and its file names "y" of shape (rows,)
written_partition(part, sl) ==
    [kind |-> "h5",
     part |-> part,
     data |-> [f \in FieldNames |->
                 IF f = "x"
                 THEN [shape |-> <<sl[2] - sl[1], 2>>, dtype |-> "float32"]
                 ELSE [shape |-> <<sl[2] - sl[1]>>, dtype |-> "str"]]]

\* cli/pack.py lines 248-340 with --create-virtual and two or more
\* partitions: every partition is written, and the virtual build is
\* entered with partition_filenames
ConcatWrite ==
    /\ planner = "pack"
    /\ plan_pc = "planned"
    /\ plan_n > 1
    /\ vpc = "idle"
    /\ \E parallel \in BOOLEAN :
         \E o \in collection_orders(plan_n, parallel) :
            vparts' = [i \in 1..plan_n |->
                          written_partition(o[i] - 1, plan_slices[o[i]])]
    /\ plan_written' = plan_n
    /\ vpc' = "start"
    /\ vidx' = 1
    /\ virtual_specs' = [f \in FieldNames |-> NoVirtualField]
    /\ accum_idx' = [f \in FieldNames |-> 0]
    /\ layouts' = [f \in FieldNames |-> <<>>]
    /\ UNCHANGED <<vout, verror, vopened, partition_specs>>
    /\ UNCHANGED <<vinput, vout_path, vuser_attrs, vchanged, vattrs>>
    /\ UNCHANGED <<planner, plan_total, plan_n, plan_fpp, plan_pc, plan_slices>>
    /\ UNCHANGED <<pack_vars, data_vars>>

NextConcat == PlanPack \/ ConcatWrite \/ VCheck \/ VScan \/ VLayout \/ VWrite

SpecConcat == InitConcat /\ [][NextConcat]_vars

\* layout[start_idx:end_idx, ...] = src: the sources logical row r of
\* virtual field f reads from, each with the row within the source
virtual_row(f, r) ==
    {[src |-> l.src, local |-> r - l.start_idx] :
        l \in {m \in Range(layouts[f]) : m.start_idx <= r /\ r < m.end_idx}}

\* C12: after packing and concatenating, the virtual field is as long as
\* the table, logical row r maps to the unique partition p with
\* start_idx[p] <= r < end_idx[p] at local index r - start_idx[p], and for
\* 10 rows in 3 partitions logical row 5 maps to partition 1, local index 1
C12_LogicalRowResolves ==
    (planner = "pack" /\ vpc = "done") =>
        \A f \in FieldNames :
            /\ virtual_specs[f].shape[1] = plan_total
            /\ \A r \in 0..(plan_total - 1) :
                   \E i \in 1..Len(vparts) :
                       /\ partition_specs[i][f].start_idx <= r
                       /\ r < partition_specs[i][f].end_idx
                       /\ virtual_row(f, r) =
                              {[src |-> i,
                                local |-> r - partition_specs[i][f].start_idx]}
            /\ (plan_total = 10 /\ plan_n = 3) =>
                   \A m \in virtual_row(f, 5) :
                       vparts[m.src].part = 1 /\ m.local = 1

DtypeMismatch ==
    \E f \in FieldNames : \E i, j \in 1..Len(vparts) :
        /\ Holds(i, f)
        /\ Holds(j, f)
        /\ vparts[i].data[f].dtype # vparts[j].data[f].dtype

\* C6: if a field has different dtypes in two of the partitions, the build
\* fails and the output file is not created or modified.
C6_DtypeMismatchRejected ==
    (VTerminal /\ DtypeMismatch) => (vpc = "error" /\ vout # "virtual")

TrailingMismatch ==
    \E f \in FieldNames : \E i, j \in 1..Len(vparts) :
        /\ Holds(i, f)
        /\ Holds(j, f)
        /\ Tail(vparts[i].data[f].shape) # Tail(vparts[j].data[f].shape)

SameFieldsEverywhere ==
    \A f \in FieldNames : \A i, j \in 1..Len(vparts) : Holds(i, f) <=> Holds(j, f)

AllPathsValid == \A i \in 1..Len(vparts) : is_file_with_ext(vparts[i])

\* C7: if a field has different trailing dimensions (or a different number
\* of dimensions) in two of the partitions, the build fails and the output
\* file is not created; partitions that differ in axis-0 lengths only are
\* accepted.
C7_TrailingDimsMustMatch ==
    /\ TrailingMismatch =>
           /\ vout # "virtual"
           /\ vpc \notin {"write", "done"}
           /\ VTerminal => vpc = "error"
    /\ (VTerminal /\ AllPathsValid /\ SameFieldsEverywhere /\ ~TrailingMismatch)
           => (vpc = "done" /\ vout = "virtual")

\* the third partition is the first whose shape does not stack
C7_Witness ==
    /\ vpc = "error"
    /\ verror = [kind |-> "incompatible", at |-> 3]
    /\ TrailingMismatch
    /\ vout = "old"

FirstBadPath ==
    CHOOSE i \in 1..Len(vparts) :
        /\ ~is_file_with_ext(vparts[i])
        /\ \A j \in 1..(i - 1) : is_file_with_ext(vparts[j])

\* C8: if any path of the list is not an existing .h5 file, the build fails
\* at the first such path in list order, before any partition is opened and
\* before the output file is created.
C8_BadPathFailsFirst ==
    (~AllPathsValid) =>
        /\ vopened = {}
        /\ vout # "virtual"
        /\ vpc \in {"start", "error"}
        /\ vpc = "error" =>
               verror = [kind |-> "invalid_partition", at |-> FirstBadPath]

\* the second and the third path are bad: the second is reported
C8_Witness ==
    /\ vpc = "error"
    /\ Len(vparts) = 3
    /\ is_file_with_ext(vparts[1])
    /\ vparts[2].kind = "missing"
    /\ vparts[3].kind = "not_h5"
    /\ verror = [kind |-> "invalid_partition", at |-> 2]

\* ------------------------------------------------------------------------
\* One run of cmd_pack: cli/pack.py
\* ------------------------------------------------------------------------
\* specs["fields"] in declared order
Fields == <<"f1", "f2">>

FieldIdx == 1..Len(Fields)

\* field_name after the loops over specs["fields"].items(): the last field
LeftoverFieldName == Fields[Len(Fields)]

Partitions == 0..(num_partitions - 1)

\* files are numbered: 0 is <output>.h5, k + 1 is <output>.pt<k>.h5
OutputFile == 0

\* add_suffix(add_extension(output, ".h5"), ".pt<idx>") unless there is one
\* partition only
partition_file(idx, n) == IF n = 1 THEN OutputFile ELSE idx + 1

FileIds == 0..MaxPartitions

DigitChar == <<"0", "1", "2", "3", "4", "5", "6", "7", "8", "9">>

RECURSIVE str(_)
\* str(n) of a natural number, as its sequence of characters
str(n) ==
    IF n < 10 THEN <<DigitChar[n + 1]>>
    ELSE str(n \div 10) \o <<DigitChar[(n % 10) + 1]>>

\* f"{partition_idx}_{field_name}"
task_key(idx, f) == str(idx) \o <<"_", f>>

startswith(text, prefix) ==
    /\ Len(prefix) <= Len(text)
    /\ SubSeq(text, 1, Len(prefix)) = prefix

TaskKeys == {<<k, f>> : k \in Partitions, f \in Range(Fields)}

NoPackError == [kind |-> "none", at |-> 0]

\* progress_bar.update(task, advance=step): rich raises KeyError for a task
\* that was removed
progress_update(tk, key, step) ==
    IF key \notin DOMAIN tk \/ tk[key].removed
    THEN [ok |-> FALSE, tasks |-> tk]
    ELSE [ok |-> TRUE,
          tasks |-> [tk EXCEPT ![key].completed = @ + step]]

\* "for task_id in task_ids: if task_id.startswith(str(partition_idx)):
\* progress_bar.remove_task(...)": rich raises KeyError for a task already
\* removed
remove_partition_tasks(tk, idx) ==
    LET hit == {key \in DOMAIN tk :
                   startswith(task_key(key[1], key[2]), str(idx))}
    IN
    IF \E key \in hit : tk[key].removed
    THEN [ok |-> FALSE, tasks |-> tk]
    ELSE [ok |-> TRUE,
          tasks |-> [key \in DOMAIN tk |->
                        IF key \in hit
                        THEN [tk[key] EXCEPT !.removed = TRUE]
                        ELSE tk[key]]]

Statuses == {"ok", "missing_column", "invalid"}

\* the files a run of n partitions writes partitions to
TargetFiles(n) == {partition_file(k, n) : k \in 0..(n - 1)}

Init ==
    /\ total_rows \in 1..MaxRows
    /\ num_partitions \in 1..MaxPartitions
    /\ workers \in {0, 1, 2}
    /\ overwrite \in BOOLEAN
    /\ skip_validation \in BOOLEAN
    \* bad data is seen by the validators only
    /\ field_status \in [FieldIdx -> Statuses]
    /\ skip_validation =>
           \A i \in FieldIdx : field_status[i] # "invalid"
    /\ existing \in SUBSET ({OutputFile} \cup TargetFiles(num_partitions))
    /\ Cardinality(existing) <= MaxExisting
    /\ create_virtual = "unread"
    /\ skip_checksum = "unread"
    /\ pc = "start"
    /\ error = NoPackError
    /\ slices = <<>>
    /\ files = [p \in FileIds |-> IF p \in existing THEN "old" ELSE "absent"]
    /\ ledger = <<>>
    /\ virtual_sources = <<>>
    /\ tasks = <<>>
    /\ queue = <<>>
    /\ wstate = [k \in Partitions |-> "pending"]
    /\ wpos = [k \in Partitions |-> <<1, 0>>]
    /\ seq_idx = 0
    /\ finished_jobs = {}
    /\ partition_filenames = <<>>
    /\ IdlePlan
    /\ IdleVirtual
    /\ IdleData

\* exit_error / an uncaught exception: the run is over
Abort(kind, at) ==
    /\ pc' = "error"
    /\ error' = [kind |-> kind, at |-> at]

\* variant: violations are reported but the run goes on
PackValidateLenient ==
    /\ pc = "start"
    /\ pc' = "validated"
    /\ UNCHANGED <<pack_args, create_virtual, skip_checksum, error, slices,
                   files, ledger, virtual_sources, tasks, queue, wstate,
                   wpos, seq_idx, finished_jobs, partition_filenames>>
    /\ UNCHANGED <<plan_vars, virt_vars, data_vars>>

\* lines 92-141: unless --skip-validation, each field in declared order:
\* exit_error when its column is missing, exit_error when a validator raises
PackValidate ==
    /\ pc = "start"
    /\ LET bad == {i \in FieldIdx : field_status[i] # "ok"} IN
       IF ~skip_validation /\ bad # {}
       THEN LET i == CHOOSE i \in bad : \A j \in bad : i <= j IN
            Abort(field_status[i], i)
       ELSE pc' = "validated" /\ error' = error
    /\ UNCHANGED <<pack_args, create_virtual, skip_checksum, slices,
                   files, ledger, virtual_sources, tasks, queue, wstate,
                   wpos, seq_idx, finished_jobs, partition_filenames>>
    /\ UNCHANGED <<plan_vars, virt_vars, data_vars>>

\* lines 143-164: slices of every field; a missing column or a refusal of
\* total_to_list_slices is an exception, which ends the run
PackPlan ==
    /\ pc = "validated"
    /\ LET r == total_to_list_slices(total_rows, num_partitions)
           bad == {i \in FieldIdx : field_status[i] = "missing_column"}
       IN
       IF bad # {}
       THEN /\ Abort("slices_failed", CHOOSE i \in bad : \A j \in bad : i <= j)
            /\ slices' = slices
       ELSE IF ~r.ok
       THEN /\ Abort("slices_failed", 1)
            /\ slices' = slices
       ELSE /\ slices' = [i \in FieldIdx |-> r.slices]
            /\ pc' = "planned"
            /\ error' = error
    /\ UNCHANGED <<pack_args, create_virtual, skip_checksum,
                   files, ledger, virtual_sources, tasks, queue, wstate,
                   wpos, seq_idx, finished_jobs, partition_filenames>>
    /\ UNCHANGED <<plan_vars, virt_vars, data_vars>>

\* variant: no check of the partition files before the partitions are made
PackPreCheckSkipped ==
    /\ pc = "planned"
    /\ pc' = "prechecked"
    /\ UNCHANGED <<pack_args, create_virtual, skip_checksum, error, slices,
                   files, ledger, virtual_sources, tasks, queue, wstate,
                   wpos, seq_idx, finished_jobs, partition_filenames>>
    /\ UNCHANGED <<plan_vars, virt_vars, data_vars>>

\* lines 211-232: every partition file is looked up before any is made;
\* exit_error at the first that exists, unless --overwrite
PackPreCheck ==
    /\ pc = "planned"
    /\ LET hit == {k \in Partitions :
                      files[partition_file(k, num_partitions)] # "absent"}
       IN
       IF hit # {} /\ ~overwrite
       THEN Abort("file_exists", CHOOSE k \in hit : \A j \in hit : k <= j)
       ELSE pc' = "prechecked" /\ error' = error
    /\ UNCHANGED <<pack_args, create_virtual, skip_checksum, slices,
                   files, ledger, virtual_sources, tasks, queue, wstate,
                   wpos, seq_idx, finished_jobs, partition_filenames>>
    /\ UNCHANGED <<plan_vars, virt_vars, data_vars>>

\* lines 234-246: one progress task per partition and field, its total the
\* size of the field's slice
PackAddTasks ==
    /\ pc = "prechecked"
    /\ tasks' = [key \in TaskKeys |->
                    LET i == CHOOSE i \in FieldIdx : Fields[i] = key[2]
                        sl == slices[i][key[1] + 1]
                    IN [removed |-> FALSE, completed |-> 0,
                        total |-> sl[2] - sl[1]]]
    /\ pc' = IF workers = 1 THEN "seq" ELSE "pool"
    /\ UNCHANGED <<pack_args, create_virtual, skip_checksum, error, slices,
                   files, ledger, virtual_sources, queue, wstate,
                   wpos, seq_idx, finished_jobs, partition_filenames>>
    /\ UNCHANGED <<plan_vars, virt_vars, data_vars>>

\* a worker's frame: what a partition writer never touches
WorkerFrame ==
    /\ UNCHANGED <<pack_args, create_virtual, skip_checksum, pc, error,
                   slices, ledger, virtual_sources, tasks, seq_idx,
                   finished_jobs, partition_filenames>>
    /\ UNCHANGED <<plan_vars, virt_vars, data_vars>>

\* the thread of the partition is started (sequential), or the pool has a
\* free process and every earlier job was handed out (parallel)
CanStart(k) ==
    /\ wstate[k] = "pending"
    /\ IF workers = 1
       THEN pc = "seq_wait" /\ seq_idx = k
       ELSE /\ pc = "par_run"
            /\ \A j \in Partitions : j < k => wstate[j] # "pending"
            /\ Cardinality({j \in Partitions : wstate[j] = "running"}) < workers

WorkerRuns(k) ==
    /\ wstate[k] = "running"
    /\ pc = IF workers = 1 THEN "seq_wait" ELSE "par_run"

\* cli/utils.py create_partition_from_data, lines 68-95: exit_error when
\* <output>.h5 exists and --overwrite is not set (sys.exit in the worker),
\* else the partition file is created with mode "w"
WorkerStart(k) ==
    /\ CanStart(k)
    /\ IF files[OutputFile] # "absent" /\ ~overwrite
       THEN /\ wstate' = [wstate EXCEPT ![k] = "exited"]
            /\ UNCHANGED files
       ELSE /\ wstate' = [wstate EXCEPT ![k] = "running"]
            /\ files' = [files EXCEPT
                            ![partition_file(k, num_partitions)] = "partial"]
    /\ UNCHANGED <<queue, wpos>>
    /\ WorkerFrame

\* one row of the current field is encoded and written, and (idx, 1) is put
\* on the queue; the messages carry the field for reference only
WorkerRow(k) ==
    /\ WorkerRuns(k)
    /\ wpos[k][1] <= Len(Fields)
    /\ LET fi == wpos[k][1]
           sl == slices[fi][k + 1]
           row == wpos[k][2] + 1
       IN
       /\ queue' = Append(queue, <<k, Fields[fi]>>)
       /\ wpos' = [wpos EXCEPT ![k] =
                      IF row >= sl[2] - sl[1] THEN <<fi + 1, 0>>
                      ELSE <<fi, row>>]
    /\ UNCHANGED <<files, wstate>>
    /\ WorkerFrame

\* the encoder of the current field raises: the writer ends with the
\* exception and leaves its file as it is
WorkerFail(k) ==
    /\ WorkerRuns(k)
    /\ wpos[k][1] <= Len(Fields)
    /\ wstate' = [wstate EXCEPT ![k] = "failed"]
    /\ UNCHANGED <<files, queue, wpos>>
    /\ WorkerFrame

\* lines 120-123: h5_file.close() and return idx, h5_filename
WorkerClose(k) ==
    /\ WorkerRuns(k)
    /\ wpos[k][1] > Len(Fields)
    /\ wstate' = [wstate EXCEPT ![k] = "done"]
    /\ files' = [files EXCEPT
                    ![partition_file(k, num_partitions)] = "complete"]
    /\ UNCHANGED <<queue, wpos>>
    /\ WorkerFrame

WorkerAlive(k) == wstate[k] \in {"pending", "running"}

\* what one queue.get(timeout=0.1) and progress_bar.update do to the queue
\* and the task table; an empty queue is the Empty exception, passed over
poll_queue(q, tk) ==
    IF q = <<>> THEN [ok |-> TRUE, queue |-> q, tasks |-> tk]
    ELSE LET r == progress_update(tk, <<Head(q)[1], LeftoverFieldName>>, 1)
         IN [ok |-> r.ok, queue |-> Tail(q), tasks |-> r.tasks]

SupervisorFrame ==
    /\ UNCHANGED <<pack_args, create_virtual, skip_checksum, slices, files,
                   ledger, virtual_sources, wstate, wpos>>
    /\ UNCHANGED <<plan_vars, virt_vars, data_vars>>

\* lines 249-263: the thread of the next partition is started
SeqStart ==
    /\ pc = "seq"
    /\ pc' = "seq_wait"
    /\ UNCHANGED <<error, tasks, queue, seq_idx, finished_jobs,
                   partition_filenames>>
    /\ SupervisorFrame

\* lines 265-274: while the thread is alive or the queue is not empty, one
\* queue.get and one progress update
SeqPoll ==
    /\ pc = "seq_wait"
    /\ WorkerAlive(seq_idx) \/ queue # <<>>
    /\ LET r == poll_queue(queue, tasks) IN
       /\ queue' = r.queue
       /\ tasks' = r.tasks
       /\ IF r.ok THEN UNCHANGED <<pc, error>>
          ELSE Abort("key_error_update", seq_idx)
    /\ UNCHANGED <<seq_idx, finished_jobs, partition_filenames>>
    /\ SupervisorFrame

\* container["result"] is set when the writer returned
thread_has_result(k) == wstate[k] = "done"

\* lines 276-285: join, read the result (KeyError when the writer ended
\* without one), remove the partition's tasks, append the filename
SeqJoin ==
    /\ pc = "seq_wait"
    /\ ~WorkerAlive(seq_idx)
    /\ queue = <<>>
    /\ IF ~thread_has_result(seq_idx)
       THEN /\ Abort("key_error_result", seq_idx)
            /\ UNCHANGED <<tasks, seq_idx, partition_filenames>>
       ELSE LET r == remove_partition_tasks(tasks, seq_idx) IN
            IF ~r.ok
            THEN /\ Abort("key_error_remove", seq_idx)
                 /\ UNCHANGED <<tasks, seq_idx, partition_filenames>>
            ELSE /\ tasks' = r.tasks
                 /\ partition_filenames' =
                        Append(partition_filenames,
                               partition_file(seq_idx, num_partitions))
                 /\ seq_idx' = seq_idx + 1
                 /\ pc' = IF seq_idx + 1 = num_partitions
                          THEN "packed" ELSE "seq"
                 /\ error' = error
    /\ UNCHANGED <<queue, finished_jobs>>
    /\ SupervisorFrame

\* lines 288-296: Pool(processes=args.workers), which refuses 0 processes,
\* and one apply_async per partition
ParStart ==
    /\ pc = "pool"
    /\ IF workers < 1 THEN Abort("value_error_processes", 0)
       ELSE pc' = "par_run" /\ error' = error
    /\ UNCHANGED <<tasks, queue, seq_idx, finished_jobs,
                   partition_filenames>>
    /\ SupervisorFrame

\* variant: every job counts as ready
job_ready_always(k) == TRUE

\* job.ready()
job_ready(k) == wstate[k] \in {"done", "failed"}

\* variant: the result of a failed job is taken like any other
job_raises_never(k) == FALSE

\* job.get() raises the exception the writer ended with
job_raises(k) == wstate[k] = "failed"

RECURSIVE collect_jobs(_, _)
\* lines 309-322: for job_idx, job in enumerate(jobs), from job j on
collect_jobs(j, acc) ==
    IF j >= num_partitions \/ acc.err # "none" THEN acc
    ELSE IF job_ready(j) /\ j \notin acc.finished
    THEN LET fin == acc.finished \cup {j} IN
         IF job_raises(j)
         THEN [acc EXCEPT !.finished = fin, !.err = "worker_exception",
                          !.at = j]
         ELSE LET r == remove_partition_tasks(acc.tasks, j) IN
              IF ~r.ok
              THEN [acc EXCEPT !.finished = fin, !.err = "key_error_remove",
                               !.at = j]
              ELSE collect_jobs(j + 1,
                       [acc EXCEPT !.finished = fin,
                                   !.tasks = r.tasks,
                                   !.filenames = Append(@,
                                       partition_file(j, num_partitions))])
    ELSE collect_jobs(j + 1, acc)

\* lines 298-325: one turn of the supervisor loop: a queue.get with its
\* progress update, then every job that is ready and not yet counted; the
\* loop ends, and the pool is closed and joined, once all jobs are counted
ParPoll ==
    /\ pc = "par_run"
    /\ Cardinality(finished_jobs) < num_partitions
    /\ LET m == poll_queue(queue, tasks) IN
       /\ queue' = m.queue
       /\ IF ~m.ok
          THEN /\ Abort("key_error_update", Head(queue)[1])
               /\ tasks' = m.tasks
               /\ UNCHANGED <<finished_jobs, partition_filenames>>
          ELSE LET c == collect_jobs(0, [finished |-> finished_jobs,
                                         filenames |-> partition_filenames,
                                         tasks |-> m.tasks,
                                         err |-> "none", at |-> 0])
               IN
               /\ finished_jobs' = c.finished
               /\ partition_filenames' = c.filenames
               /\ tasks' = c.tasks
               /\ IF c.err # "none" THEN Abort(c.err, c.at)
                  ELSE /\ error' = error
                       /\ pc' = IF Cardinality(c.finished) >= num_partitions
                                THEN "packed" ELSE "par_run"
    /\ UNCHANGED seq_idx
    /\ SupervisorFrame

\* lines 332-340: with --create-virtual and more than one partition, the
\* virtual dataset <output>.h5 is built over partition_filenames
PackVirtual ==
    /\ pc = "packed"
    /\ \E cv \in {"yes", "no"} :
        /\ create_virtual' = cv
        /\ IF cv = "yes" /\ num_partitions > 1
           THEN /\ files' = [files EXCEPT ![OutputFile] = "virtual"]
                /\ virtual_sources' = partition_filenames
           ELSE UNCHANGED <<files, virtual_sources>>
    /\ pc' = "virtual_done"
    /\ UNCHANGED <<pack_args, skip_checksum, error, slices, ledger, tasks,
                   queue, wstate, wpos, seq_idx, finished_jobs,
                   partition_filenames>>
    /\ UNCHANGED <<plan_vars, virt_vars, data_vars>>

\* lines 345-395: unless --skip-checksum, one ledger line per entry of
\* partition_filenames, then one for the virtual dataset when it was built
PackChecksum ==
    /\ pc = "virtual_done"
    /\ \E sc \in {"yes", "no"} :
        /\ skip_checksum' = sc
        /\ ledger' =
             IF sc = "yes" THEN ledger
             ELSE partition_filenames \o
                  (IF create_virtual = "yes" /\ num_partitions > 1
                   THEN <<OutputFile>> ELSE <<>>)
    /\ pc' = "done"
    /\ UNCHANGED <<pack_args, create_virtual, error, slices, files,
                   virtual_sources, tasks, queue, wstate, wpos, seq_idx,
                   finished_jobs, partition_filenames>>
    /\ UNCHANGED <<plan_vars, virt_vars, data_vars>>

Next ==
    \/ PackValidate
    \/ PackPlan
    \/ PackPreCheck
    \/ PackAddTasks
    \/ SeqStart
    \/ SeqPoll
    \/ SeqJoin
    \/ ParStart
    \/ ParPoll
    \/ \E k \in Partitions : WorkerStart(k)
    \/ \E k \in Partitions : WorkerRow(k)
    \/ \E k \in Partitions : WorkerFail(k)
    \/ \E k \in Partitions : WorkerClose(k)
    \/ PackVirtual
    \/ PackChecksum

Spec == Init /\ [][Next]_vars

\* ------------------------------------------------------------------------
\* Properties of a pack run (Spec)
\* ------------------------------------------------------------------------
PackSucceeded == pc \in {"packed", "virtual_done", "done"}

FilesAtStart == [p \in FileIds |-> IF p \in existing THEN "old" ELSE "absent"]

\* C3: in parallel mode, whatever the order in which the writers finish, the
\* list of partition filenames handed to the virtual build and to the ledger
\* is in ascending partition order: entry k is the file of partition k
C3_FilenamesInPartitionOrder ==
    (workers # 1 /\ PackSucceeded) =>
        /\ Len(partition_filenames) = num_partitions
        /\ \A k \in Partitions :
               partition_filenames[k + 1] = partition_file(k, num_partitions)

EncoderRaised == \E k \in Partitions : wstate[k] = "failed"

\* C4: once the encoder of any partition has raised, in sequential or in
\* parallel mode, the run never gets past the writing of the partitions: no
\* virtual dataset is built over the partitions and no ledger is written
C4_EncoderFailureAbortsRun ==
    EncoderRaised =>
        /\ ~PackSucceeded
        /\ files[OutputFile] # "virtual"
        /\ virtual_sources = <<>>
        /\ ledger = <<>>

\* two partitions in parallel: the first is written, the encoder of the
\* second raised and left a partial file, and job.get() ended the run
C4_Witness ==
    /\ num_partitions = 2
    /\ workers = 2
    /\ wstate = [k \in Partitions |-> IF k = 0 THEN "done" ELSE "failed"]
    /\ files[partition_file(0, 2)] = "complete"
    /\ files[partition_file(1, 2)] = "partial"
    /\ pc = "error"
    /\ error = [kind |-> "worker_exception", at |-> 1]
    /\ ledger = <<>>

\* C5: without --overwrite, a partition file that exists when the run starts
\* is never created anew, truncated or written: the run fails before any
\* writer is started and the file stays as it was
C5_ExistingPartitionFilesKept ==
    ~overwrite =>
        \A p \in TargetFiles(num_partitions) \cap existing :
            /\ files[p] = "old"
            /\ pc \in {"start", "validated", "planned", "error"}
            /\ \A k \in Partitions : wstate[k] = "pending"

\* the file of partition 1 of 2 exists: the run ended at the look-up of the
\* partition files, naming that partition, with the file untouched
C5_Witness ==
    /\ ~overwrite
    /\ num_partitions = 2
    /\ existing = {partition_file(1, 2)}
    /\ pc = "error"
    /\ error = [kind |-> "file_exists", at |-> 1]
    /\ files = FilesAtStart

ValidationViolation ==
    /\ ~skip_validation
    /\ \E i \in FieldIdx : field_status[i] # "ok"

FirstViolation ==
    CHOOSE i \in FieldIdx :
        /\ field_status[i] # "ok"
        /\ \A j \in FieldIdx : field_status[j] # "ok" => i <= j

\* C9: with validation enabled and a column missing or a validator failing
\* for some field, the run ends at the first such field in declared order,
\* and no partition file, virtual file or ledger has been made by then
C9_ValidationFailsFast ==
    ValidationViolation =>
        /\ pc \in {"start", "error"}
        /\ pc = "error" =>
               error = [kind |-> field_status[FirstViolation],
                        at |-> FirstViolation]
        /\ files = FilesAtStart
        /\ ledger = <<>>
        /\ virtual_sources = <<>>
        /\ \A k \in Partitions : wstate[k] = "pending"

\* a validator fails for the first field and the column of the second is
\* missing: the run ended naming the first field
C9_Witness ==
    /\ ~skip_validation
    /\ field_status = <<"invalid", "missing_column">>
    /\ pc = "error"
    /\ error = [kind |-> "invalid", at |-> 1]
    /\ files = FilesAtStart

\* ------------------------------------------------------------------------
\* The audio validator: data/validators.py _validate_file_as_audiodtype
\* (SpecValidate)
\* ------------------------------------------------------------------------
SampleRates == {16000, 44100}

NoAudioError == [kind |-> "none", at |-> 0, expected |-> 0, found |-> 0]

\* what a row of the column can name: a readable audio file with an allowed
\* extension, or a path that is no such file
ValidatorFiles ==
    {[ok |-> TRUE, name |-> "a.wav", fs |-> fs, num_channels |-> c,
      num_samples |-> 2] : fs \in SampleRates, c \in {1, 2}}
    \cup {[ok |-> FALSE, name |-> "a.txt", fs |-> 0, num_channels |-> 0,
           num_samples |-> 0]}

\* core.guards.is_file_with_ext_or_error(file, ext=allowed extensions):
\* TRUE when it raises
is_file_with_ext_or_error(file) == ~file.ok

\* core.io.read_audio_metadata(file)
read_audio_metadata(file) ==
    [fs |-> file.fs, num_channels |-> file.num_channels,
     num_samples_per_channel |-> file.num_samples]

InitValidate ==
    /\ \E n \in 1..MaxAuFiles : au_files \in [1..n -> ValidatorFiles]
    /\ au_pc = "validate"
    /\ au_idx = 1
    /\ au_observed_fs = <<>>
    /\ au_error = NoAudioError
    /\ au_examined = {}
    /\ au_group = <<>>
    /\ au_unpacked = <<>>
    /\ IdleChecksum
    /\ IdleNames
    /\ IdleRegistry
    /\ IdlePlan
    /\ IdleVirtual
    /\ IdlePack

\* variant: every rate read is appended
observe_fs_all(observed_fs, fs) == Append(observed_fs, fs)

\* "if meta['fs'] not in observed_fs: observed_fs.append(meta['fs'])"
observe_fs(observed_fs, fs) ==
    IF fs \in Range(observed_fs) THEN observed_fs ELSE Append(observed_fs, fs)

AudioFail(kind, at, expected, found) ==
    /\ au_pc' = "invalid"
    /\ au_error' = [kind |-> kind, at |-> at, expected |-> expected,
                    found |-> found]

\* lines 122-149, one file of the column: the path must be an audio file,
\* mono, and of the sample rate of the files before it; an exception ends
\* the validation (cmd_pack turns it into exit_error)
ValidateFile ==
    /\ au_pc = "validate"
    /\ au_idx <= Len(au_files)
    /\ au_examined' = au_examined \cup {au_idx}
    /\ LET file == au_files[au_idx] IN
       IF is_file_with_ext_or_error(file)
       THEN /\ AudioFail("FileError", au_idx, 0, 0)
            /\ UNCHANGED <<au_idx, au_observed_fs>>
       ELSE LET meta == read_audio_metadata(file)
                obs == observe_fs(au_observed_fs, meta.fs)
            IN
            IF meta.num_channels # 1
            THEN /\ AudioFail("ChannelCountError", au_idx, 0, 0)
                 /\ UNCHANGED <<au_idx, au_observed_fs>>
            ELSE /\ au_observed_fs' = obs
                 /\ IF Len(obs) > 1
                    THEN /\ AudioFail("SampleRateError", au_idx,
                                      obs[1], obs[Len(obs)])
                         /\ UNCHANGED au_idx
                    ELSE /\ au_idx' = au_idx + 1
                         /\ au_pc' = IF au_idx = Len(au_files)
                                     THEN "valid" ELSE "validate"
                         /\ au_error' = au_error
    /\ UNCHANGED <<au_files, au_group, au_unpacked>>
    /\ UNCHANGED <<ck_vars, name_vars, reg_vars, plan_vars, virt_vars, pack_vars>>

NextValidate == ValidateFile

SpecValidate == InitValidate /\ [][NextValidate]_vars

\* the first row whose file has another rate than the first row's file
RateChanges(k) ==
    /\ k \in 1..Len(au_files)
    /\ au_files[k].fs # au_files[1].fs
    /\ \A j \in 1..(k - 1) : au_files[j].fs = au_files[1].fs

\* C16: scanning the files in row order, the validator takes the first
\* file's sample rate as the expected one and fails at the first file whose
\* rate differs, reporting the expected rate and that file; no file after
\* it is examined
C16_FirstRateIsExpected ==
    \A k \in 1..Len(au_files) :
        (/\ RateChanges(k)
         /\ \A j \in 1..k : au_files[j].ok /\ au_files[j].num_channels = 1) =>
            /\ au_examined \subseteq 1..k
            /\ au_pc # "valid"
            /\ au_pc = "invalid" =>
                   /\ au_error = [kind |-> "SampleRateError", at |-> k,
                                  expected |-> au_files[1].fs,
                                  found |-> au_files[k].fs]
                   /\ au_examined = 1..k

\* rates 16000, 16000, 44100: the third file fails against 16000
C16_Witness ==
    /\ Len(au_files) = 3
    /\ \A i \in 1..3 : au_files[i].ok /\ au_files[i].num_channels = 1
    /\ au_files[1].fs = 16000
    /\ au_files[2].fs = 16000
    /\ au_files[3].fs = 44100
    /\ au_pc = "invalid"
    /\ au_error = [kind |-> "SampleRateError", at |-> 3,
                   expected |-> 16000, found |-> 44100]

\* ------------------------------------------------------------------------
\* Audio encoder and extractor: data/parsers.py _as_audiodtype and
\* data/extractors.py _from_audiodtype (SpecCodec)
\* ------------------------------------------------------------------------
AudioField == "audio"

SampleCounts == {2, 3}

\* validated or not, the files handed to the encoder: readable mono files
EncoderFiles ==
    [ok : {TRUE}, name : {"a.wav", "b.wav"}, fs : SampleRates,
     num_channels : {1}, num_samples : SampleCounts]

InitCodec ==
    /\ \E n \in 1..MaxAuFiles : au_files \in [1..n -> EncoderFiles]
    /\ au_pc = "encode"
    /\ au_idx = 0
    /\ au_observed_fs = <<>>
    /\ au_error = NoAudioError
    /\ au_examined = {}
    /\ au_group = <<>>
    /\ au_unpacked = <<>>
    /\ IdleChecksum
    /\ IdleNames
    /\ IdleRegistry
    /\ IdlePlan
    /\ IdleVirtual
    /\ IdlePack

\* variant: only the first file is looked at
observed_lens_first(paths) ==
    {read_audio_metadata(paths[1]).num_samples_per_channel}

\* lines 56-70: the row lengths seen up to the point where the scan stops
observed_lens(paths) ==
    {read_audio_metadata(paths[i]).num_samples_per_channel :
        i \in 1..Len(paths)}

\* name of the dataset the encoder creates for the file names (line 94)
encoder_filepath_name(field_name) == field_name \o "__filepath"

\* name of the dataset the extractor reads the file names from (line 39)
extractor_filepath_name(field_name) == field_name \o "_filepath"

\* the group's dataset of that name: the group is the sequence of the
\* datasets created in it
has_dataset(group, name) == \E i \in 1..Len(group) : group[i].name = name

get_dataset(group, name) ==
    group[CHOOSE i \in 1..Len(group) : group[i].name = name]

\* parsers.py 47-112: the length scan, the rate of the first file, the
\* data set with its attributes, the file-name data set, then every row
Encode ==
    /\ au_pc = "encode"
    /\ LET paths == au_files
           vlen == Cardinality(observed_lens(paths)) > 1
           fs == read_audio_metadata(paths[1]).fs
           num_samples ==
               read_audio_metadata(paths[Len(paths)]).num_samples_per_channel
           dataset ==
               [name |-> AudioField,
                ndim |-> IF vlen THEN 1 ELSE 2,
                shape |-> IF vlen THEN <<Len(paths)>>
                          ELSE <<Len(paths), num_samples>>,
                layout |-> [i \in 1..Len(paths) |->
                               IF vlen THEN "ragged" ELSE "dense"],
                parser |-> "as_audioint16",
                sample_rate |-> fs,
                rows |-> [i \in 1..Len(paths) |-> paths[i].num_samples]]
           filenames_dataset ==
               [name |-> encoder_filepath_name(AudioField),
                ndim |-> 1,
                shape |-> <<Len(paths)>>,
                layout |-> [i \in 1..Len(paths) |-> "scalar"],
                parser |-> "none",
                sample_rate |-> 0,
                rows |-> [i \in 1..Len(paths) |-> paths[i].name]]
       IN /\ au_group' = <<dataset, filenames_dataset>>
          /\ au_idx' = Len(paths)
          /\ au_pc' = "encoded"
    /\ UNCHANGED <<au_files, au_observed_fs, au_error, au_examined,
                   au_unpacked>>
    /\ UNCHANGED <<ck_vars, name_vars, reg_vars, plan_vars, virt_vars, pack_vars>>

\* extractors.py 25-94 for the field of the encoder: the file names are
\* read from the companion data set, then one audio file is written per
\* row (fixed length and variable length alike)
Extract ==
    /\ au_pc = "encoded"
    /\ LET data == au_group
           field_name == AudioField
           filepath == extractor_filepath_name(field_name)
       IN IF ~has_dataset(data, filepath)
          THEN /\ au_pc' = "extract_error"
               /\ au_error' = [kind |-> "KeyError", at |-> 0,
                               expected |-> 0, found |-> 0]
               /\ au_unpacked' = au_unpacked
          ELSE LET filenames == get_dataset(data, filepath).rows
                   audio == get_dataset(data, field_name).rows
               IN /\ au_unpacked' =
                         [i \in 1..Len(filenames) |->
                             [name |-> filenames[i],
                              num_samples |-> audio[i]]]
                  /\ au_pc' = "unpacked"
                  /\ au_error' = au_error
    /\ UNCHANGED <<au_files, au_idx, au_observed_fs, au_examined, au_group>>
    /\ UNCHANGED <<ck_vars, name_vars, reg_vars, plan_vars, virt_vars, pack_vars>>

NextCodec == Encode \/ Extract

SpecCodec == InitCodec /\ [][NextCodec]_vars

FixedLength == \A i \in 1..Len(au_files) :
                   au_files[i].num_samples = au_files[1].num_samples

OneSampleRate == \A i \in 1..Len(au_files) : au_files[i].fs = au_files[1].fs

\* C15: encoding a fixed-length audio field and decoding it with the paired
\* extractor succeeds and yields, row by row and in order, the sample count
\* and the basename of the encoded files
C15_AudioRoundTrip ==
    (au_pc \in {"unpacked", "extract_error"} /\ FixedLength) =>
        /\ au_pc = "unpacked"
        /\ au_unpacked = [i \in 1..Len(au_files) |->
                             [name |-> au_files[i].name,
                              num_samples |-> au_files[i].num_samples]]

\* C17: an audio encode call over files that do not share one sample rate
\* fails with an inconsistent-sample-rate error and writes no data set
C17_MixedRatesRejected ==
    (au_pc \notin {"idle", "encode"} /\ ~OneSampleRate) =>
        /\ au_pc = "encode_error"
        /\ au_error.kind = "InconsistentSampleRateError"
        /\ au_group = <<>>

\* ------------------------------------------------------------------------
\* Checksum verification: cli/checksum.py cmd_checksum, .sha256 input
\* (SpecChecksum)
\* ------------------------------------------------------------------------
Digests == {"d1", "d2"}

\* a ledger line "<name>\t<digest>" together with the file its name refers
\* to in the ledger's folder
LedgerLines ==
    {[file |-> [kind |-> "h5", checksum |-> c], saved |-> d] :
        c \in Digests, d \in Digests}
    \cup {[file |-> [kind |-> "missing", checksum |-> "none"], saved |-> d] :
            d \in Digests}

\* core.utils.get_file_checksum(h5_file, hash="sha256")
get_file_checksum(file) == file.checksum

InitChecksum ==
    /\ \E n \in 1..MaxLedger : ck_lines \in [1..n -> LedgerLines]
    /\ ck_pc = "verify"
    /\ ck_idx = 1
    /\ ck_report = <<>>
    /\ ck_error = 0
    /\ ck_tree = {}
    /\ ck_input = "none"
    /\ ck_save_dir = "none"
    /\ IdleAudio
    /\ IdleNames
    /\ IdleRegistry
    /\ IdlePlan
    /\ IdleVirtual
    /\ IdlePack

\* variant: reporting an error ends the command
print_error_exits(then) == "exit"

\* core.display.print_error: prints, and the caller goes on
print_error(then) == then

\* lines 40-63, one line of the ledger: a reference that is no .h5 file
\* ends the command, otherwise the line is reported as OK or MISMATCH
VerifyLine ==
    /\ ck_pc = "verify"
    /\ ck_idx <= Len(ck_lines)
    /\ LET line == ck_lines[ck_idx]
           h5_file == line.file
           saved_checksum == line.saved
           go_on == IF ck_idx = Len(ck_lines) THEN "done" ELSE "verify"
       IN IF ~is_file_with_ext(h5_file)
          THEN /\ ck_pc' = "exit"
               /\ ck_error' = ck_idx
               /\ UNCHANGED <<ck_idx, ck_report>>
          ELSE LET checksum == get_file_checksum(h5_file) IN
               /\ ck_idx' = ck_idx + 1
               /\ ck_error' = ck_error
               /\ IF saved_checksum = checksum
                  THEN /\ ck_report' = Append(ck_report, "OK")
                       /\ ck_pc' = go_on
                  ELSE /\ ck_report' = Append(ck_report, "MISMATCH")
                       /\ ck_pc' = print_error(go_on)
    /\ UNCHANGED <<ck_lines, ck_tree, ck_input, ck_save_dir>>
    /\ UNCHANGED <<audio_vars, name_vars, reg_vars, plan_vars, virt_vars, pack_vars>>

NextChecksum == VerifyLine

SpecChecksum == InitChecksum /\ [][NextChecksum]_vars

AllReferencesExist ==
    \A i \in 1..Len(ck_lines) : ck_lines[i].file.kind = "h5"

Verdict(line) ==
    IF line.saved = line.file.checksum THEN "OK" ELSE "MISMATCH"

\* C18: verifying a ledger whose referenced files all exist reports a match
\* or a mismatch for every line; a mismatch never stops the later lines
C18_EveryLineReported ==
    (ck_pc # "idle" /\ AllReferencesExist) =>
        /\ ck_pc \in {"verify", "done"}
        /\ ck_pc = "verify" => ck_idx <= Len(ck_lines)
        /\ Len(ck_report) = ck_idx - 1
        /\ \A i \in 1..Len(ck_report) : ck_report[i] = Verdict(ck_lines[i])
        /\ ck_pc = "done" => Len(ck_report) = Len(ck_lines)

\* a mismatch on the first line, and the lines after it reported all the same
C18_Witness ==
    /\ AllReferencesExist
    /\ Len(ck_lines) = 3
    /\ ck_pc = "done"
    /\ ck_report = <<"MISMATCH", "OK", "MISMATCH">>

\* ------------------------------------------------------------------------
\* Worker count and progress accounting of cmd_pack (Spec)
\* ------------------------------------------------------------------------
Running == {k \in Partitions : wstate[k] = "running"}

\* C19: with worker count 0 the pack command creates its pool (one worker
\* per core) and the run is not ended by the pool's creation; with 1 the
\* partitions are written one after the other, in partition order; with any
\* other positive count at most that many writers run at a time
C19_WorkerCountSelectsMode ==
    /\ workers = 0 => error.kind # "value_error_processes"
    /\ workers = 1 =>
           /\ Cardinality(Running) <= 1
           /\ \A k \in Partitions :
                  wstate[k] # "pending" =>
                      \A j \in Partitions : j < k => wstate[j] = "done"
    /\ workers > 1 => Cardinality(Running) <= workers

\* rows of field number fi that the writer of partition i has encoded, each
\* of which put one message on the queue
emitted(i, fi) ==
    IF wpos[i][1] > fi THEN SliceSize(slices[fi][i + 1])
    ELSE IF wpos[i][1] = fi THEN wpos[i][2]
    ELSE 0

\* messages of that encoder that the supervisor has not taken yet
in_queue(i, fi) ==
    Cardinality({j \in 1..Len(queue) : queue[j] = <<i, Fields[fi]>>})

\* C20: every progress message emitted by the encoder of field F in
\* partition i advances the task keyed (i, F) and no other, in sequential
\* and in parallel mode: as long as the task is shown its count is the
\* number of that encoder's messages taken from the queue, and once
\* partition i is written it is at most the size of F's slice
C20_ProgressAdvancesOwnTask ==
    (tasks # <<>> /\ pc # "error") =>
        \A i \in Partitions : \A fi \in FieldIdx :
            ~tasks[<<i, Fields[fi]>>].removed =>
                /\ tasks[<<i, Fields[fi]>>].completed =
                       emitted(i, fi) - in_queue(i, fi)
                /\ wstate[i] = "done" =>
                       tasks[<<i, Fields[fi]>>].completed
                           <= SliceSize(slices[fi][i + 1])

\* ------------------------------------------------------------------------
\* The progress-task table in the supervisor loops (Spec)
\* ------------------------------------------------------------------------
\* C21: in parallel mode the supervisor never applies a progress message to
\* a task it has removed: no update ends in rich's KeyError, and no message
\* of a partition is unread in the queue once that partition's tasks are
\* removed
C21_NoMessageAfterRemoval ==
    (workers # 1 /\ tasks # <<>>) =>
        /\ error.kind # "key_error_update"
        /\ \A j \in 1..Len(queue) : \A f \in Range(Fields) :
               ~tasks[<<queue[j][1], f>>].removed

\* a sequential pack run over many partitions of one row each (SpecTasks):
\* its task table has keys whose partition index has two digits
InitTasks ==
    /\ num_partitions \in 1..MaxTaskParts
    /\ total_rows = num_partitions
    /\ workers = 1
    /\ overwrite = TRUE
    /\ skip_validation = TRUE
    /\ field_status = [i \in FieldIdx |-> "ok"]
    /\ existing = {}
    /\ create_virtual = "unread"
    /\ skip_checksum = "unread"
    /\ pc = "start"
    /\ error = NoPackError
    /\ slices = <<>>
    /\ files = [p \in 0..num_partitions |-> "absent"]
    /\ ledger = <<>>
    /\ virtual_sources = <<>>
    /\ tasks = <<>>
    /\ queue = <<>>
    /\ wstate = [k \in Partitions |-> "pending"]
    /\ wpos = [k \in Partitions |-> <<1, 0>>]
    /\ seq_idx = 0
    /\ finished_jobs = {}
    /\ partition_filenames = <<>>
    /\ IdlePlan
    /\ IdleVirtual
    /\ IdleData

NextTasks ==
    \/ PackValidate
    \/ PackPlan
    \/ PackPreCheck
    \/ PackAddTasks
    \/ SeqStart
    \/ SeqPoll
    \/ SeqJoin
    \/ \E k \in Partitions : WorkerStart(k)
    \/ \E k \in Partitions : WorkerRow(k)
    \/ \E k \in Partitions : WorkerFail(k)
    \/ \E k \in Partitions : WorkerClose(k)
    \/ PackVirtual
    \/ PackChecksum

SpecTasks == InitTasks /\ [][NextTasks]_vars

\* the partitions whose completion the supervisor has handled
Collected == IF workers = 1 THEN 0..(seq_idx - 1) ELSE finished_jobs

\* C22: the supervisor removes, on the completion of partition i, the tasks
\* of partition i only: a removed task is a task of a partition whose
\* completion was handled, and no task is removed twice (rich's KeyError),
\* for every partition count
C22_RemovesOwnTasksOnly ==
    tasks # <<>> =>
        /\ error.kind # "key_error_remove"
        /\ \A key \in DOMAIN tasks :
               tasks[key].removed => key[1] \in Collected

\* ------------------------------------------------------------------------
\* Order of the stages of a pack run (Spec)
\* ------------------------------------------------------------------------
VirtualBuilt == virtual_sources # <<>>

\* C23: the virtual build starts only after every partition writer has
\* finished and closed its file, and only when more than one partition was
\* created; the ledger is written only after the virtual build, when one is
\* performed, has finished
C23_StagesInOrder ==
    /\ pc \in {"virtual_done", "done"} =>
           \A k \in Partitions :
               /\ wstate[k] = "done"
               /\ files[partition_file(k, num_partitions)] = "complete"
    /\ VirtualBuilt =>
           /\ num_partitions > 1
           /\ create_virtual = "yes"
           /\ files[OutputFile] = "virtual"
    /\ ledger # <<>> =>
           /\ pc = "done"
           /\ (create_virtual = "yes" /\ num_partitions > 1) => VirtualBuilt
    /\ (pc \in {"virtual_done", "done"} /\ num_partitions = 1) => ~VirtualBuilt

\* a parallel run of two partitions, with its virtual dataset and its ledger
C23_Witness ==
    /\ workers = 2
    /\ num_partitions = 2
    /\ pc = "done"
    /\ VirtualBuilt
    /\ files[OutputFile] = "virtual"
    /\ Len(ledger) = 3

\* ------------------------------------------------------------------------
\* Termination of the supervisor loops (SpecLive)
\* ------------------------------------------------------------------------
\* the main process and the writers keep running: a step that is possible
\* is eventually taken
SpecLive == Init /\ [][Next]_vars /\ WF_vars(Next)

SupervisorEnded == pc \in {"packed", "virtual_done", "done", "error"}

\* every writer that was started has returned, raised or exited
NoWriterRunning == \A k \in Partitions : wstate[k] # "running"

RECURSIVE NoDuplicates(_)
NoDuplicates(seq) ==
    IF Len(seq) <= 1 THEN TRUE
    ELSE /\ \A j \in 2..Len(seq) : seq[j] # seq[1]
         /\ NoDuplicates(Tail(seq))

\* C24: when every partition writer eventually finishes, the supervisor
\* loop eventually ends, in sequential and in parallel mode, and no
\* finished job is counted twice
C24_SupervisorTerminates ==
    /\ [](NoDuplicates(partition_filenames))
    /\ (<>[]NoWriterRunning) => <>SupervisorEnded

\* ------------------------------------------------------------------------
\* The file paths of a pack run: core/io.py add_extension / add_suffix and
\* the partition suffix of cmd_pack and the partition writer (SpecNames)
\* ------------------------------------------------------------------------
\* paths are sequences of characters
NameChars == {"a", ".", "/", "h", "5"}

H5Ext == <<".", "h", "5">>

OutputNames ==
    UNION {[1..len -> NameChars] : len \in 1..MaxNameLen}

\* str.endswith
endswith(text, suffix) ==
    /\ Len(suffix) <= Len(text)
    /\ SubSeq(text, Len(text) - Len(suffix) + 1, Len(text)) = suffix

\* core/io.py add_extension
add_extension(file, ext) ==
    IF ~endswith(file, ext) THEN file \o ext ELSE file

\* the last position of character c in text, 0 when there is none
rfind(text, c) ==
    LET hits == {i \in 1..Len(text) : text[i] = c}
    IN IF hits = {} THEN 0
       ELSE CHOOSE i \in hits : \A j \in hits : j <= i

\* os.path.splitext: the extension starts at the last dot of the last path
\* component, leading dots of the component apart
splitext(file) ==
    LET sep == rfind(file, "/")
        dot == rfind(file, ".")
    IN IF dot > sep /\ \E i \in (sep + 1)..(dot - 1) : file[i] # "."
       THEN <<SubSeq(file, 1, dot - 1), SubSeq(file, dot, Len(file))>>
       ELSE <<file, <<>>>>

\* variant: the suffix is left out
add_suffix_dropped(file, suffix) ==
    splitext(file)[1] \o splitext(file)[2]

\* core/io.py add_suffix
add_suffix(file, suffix) ==
    splitext(file)[1] \o suffix \o splitext(file)[2]

RECURSIVE zfill(_, _)
\* str.zfill for a string of digits
zfill(text, width) ==
    IF Len(text) >= width THEN text ELSE zfill(<<"0">> \o text, width)

\* f".pt{str(partition_idx).zfill(len(str(num_partitions)))}"
partition_suffix(idx, n) == <<".", "p", "t">> \o zfill(str(idx), Len(str(n)))

InitNames ==
    /\ nm_output \in OutputNames
    /\ nm_n \in 2..MaxNameParts
    /\ nm_pc = "args"
    /\ nm_partition_files = <<>>
    /\ nm_virtual_file = <<>>
    /\ IdleAudio
    /\ IdleChecksum
    /\ IdleRegistry
    /\ IdlePlan
    /\ IdleVirtual
    /\ IdlePack

\* pack.py 221-226 and cli/utils.py 69-82: the path of every partition
\* file; pack.py 335: the path of the virtual dataset
DerivePaths ==
    /\ nm_pc = "args"
    /\ nm_partition_files' =
           [k \in 1..nm_n |->
               add_suffix(add_extension(nm_output, H5Ext),
                          partition_suffix(k - 1, nm_n))]
    /\ nm_virtual_file' = add_extension(nm_output, H5Ext)
    /\ nm_pc' = "derived"
    /\ UNCHANGED <<nm_output, nm_n>>
    /\ UNCHANGED <<audio_vars, ck_vars, reg_vars, plan_vars, virt_vars, pack_vars>>

NextNames == DerivePaths

SpecNames == InitNames /\ [][NextNames]_vars

\* C25: for every output name and every partition count n > 1 the n
\* partition file paths and the path of the virtual dataset are pairwise
\* distinct
C25_PathsPairwiseDistinct ==
    nm_pc = "derived" =>
        /\ Len(nm_partition_files) = nm_n
        /\ \A i, j \in 1..nm_n :
               i # j => nm_partition_files[i] # nm_partition_files[j]
        /\ \A i \in 1..nm_n : nm_partition_files[i] # nm_virtual_file

\* eleven partitions of output "a.h5": indices padded to two digits
C25_Witness ==
    /\ nm_pc = "derived"
    /\ nm_output = <<"a", ".", "h", "5">>
    /\ nm_n = 11
    /\ nm_virtual_file = <<"a", ".", "h", "5">>
    /\ nm_partition_files[2] = <<"a", ".", "p", "t", "0", "1", ".", "h", "5">>
    /\ nm_partition_files[11] = <<"a", ".", "p", "t", "1", "0", ".", "h", "5">>

\* ------------------------------------------------------------------------
\* Dense or ragged layout of one field in one partition: _as_audiodtype and
\* _as_listdtype (SpecLayout)
\* ------------------------------------------------------------------------
ListField == "list"

\* the rows of a list column, by the length of the list each one spells
ListRows == [len : 0..2]

\* core.guards.are_lists_equal_len(*lists)
are_lists_equal_len(lists) ==
    \A i \in 1..Len(lists) : lists[i].len = lists[1].len

InitLayout ==
    /\ \E n \in 1..MaxAuFiles :
           \/ au_files \in [1..n -> EncoderFiles] /\ au_pc = "encode"
           \/ au_files \in [1..n -> ListRows] /\ au_pc = "encode_list"
    /\ au_idx = 0
    /\ au_observed_fs = <<>>
    /\ au_error = NoAudioError
    /\ au_examined = {}
    /\ au_group = <<>>
    /\ au_unpacked = <<>>
    /\ IdleChecksum
    /\ IdleNames
    /\ IdleRegistry
    /\ IdlePlan
    /\ IdleVirtual
    /\ IdlePack

\* parsers.py 396-434: the lists of the slice, the test of their lengths,
\* the data set in the layout chosen, then every row
EncodeList ==
    /\ au_pc = "encode_list"
    /\ LET lists == au_files
           vlen == ~are_lists_equal_len(lists)
           dataset ==
               [name |-> ListField,
                ndim |-> IF vlen THEN 1 ELSE 2,
                shape |-> IF vlen THEN <<Len(lists)>>
                          ELSE <<Len(lists), lists[1].len>>,
                layout |-> [i \in 1..Len(lists) |->
                               IF vlen THEN "ragged" ELSE "dense"],
                parser |-> "as_listint16",
                sample_rate |-> 0,
                rows |-> [i \in 1..Len(lists) |-> lists[i].len]]
       IN /\ au_group' = <<dataset>>
          /\ au_idx' = Len(lists)
          /\ au_pc' = "list_encoded"
    /\ UNCHANGED <<au_files, au_observed_fs, au_error, au_examined,
                   au_unpacked>>
    /\ UNCHANGED <<ck_vars, name_vars, reg_vars, plan_vars, virt_vars, pack_vars>>

NextLayout == Encode \/ EncodeList

SpecLayout == InitLayout /\ [][NextLayout]_vars

\* the lengths of the rows handed to the encoder
RowLens ==
    [i \in 1..Len(au_files) |->
        IF au_pc = "encoded" THEN au_files[i].num_samples
        ELSE au_files[i].len]

\* C26: the audio and the list encoder create a dense data set of shape
\* (rows, L) exactly when every row of the slice has the same length L, and
\* a ragged one of shape (rows,) otherwise; every row is written in the
\* layout chosen
C26_DenseIffEqualLengths ==
    au_pc \in {"encoded", "list_encoded"} =>
        LET d == au_group[1]
            n == Len(au_files)
            same == \A i \in 1..n : RowLens[i] = RowLens[1]
        IN /\ d.ndim = 2 <=> same
           /\ d.shape = IF same THEN <<n, RowLens[1]>> ELSE <<n>>
           /\ d.rows = RowLens
           /\ \A i \in 1..n :
                  d.layout[i] = IF same THEN "dense" ELSE "ragged"

\* an audio slice of lengths 2, 2, 3 is ragged
C26_Witness ==
    /\ au_pc = "encoded"
    /\ Len(au_files) = 3
    /\ RowLens = <<2, 2, 3>>
    /\ au_group[1].ndim = 1
    /\ au_group[1].shape = <<3>>
    /\ au_group[1].layout = <<"ragged", "ragged", "ragged">>

\* ------------------------------------------------------------------------
\* A pack run over an audio column, then the virtual build over its
\* partitions (SpecAudioRun)
\* ------------------------------------------------------------------------
\* mono files of one sample rate and of either length
AudioRows == {f \in EncoderFiles : f.name = "a.wav" /\ f.fs = 16000}

InitAudioRun ==
    /\ \E n \in 1..MaxAudioRows : au_files \in [1..n -> AudioRows]
    /\ au_pc = "column"
    /\ au_idx = 0
    /\ au_observed_fs = <<>>
    /\ au_error = NoAudioError
    /\ au_examined = {}
    /\ au_group = <<>>
    /\ au_unpacked = <<>>
    /\ planner = "pack"
    /\ plan_total = Len(au_files)
    /\ plan_n \in 1..MaxCParts
    /\ plan_fpp = 0
    /\ plan_pc = "start"
    /\ plan_slices = <<>>
    /\ plan_written = 0
    /\ IdleVirtual
    /\ IdlePack
    /\ IdleChecksum
    /\ IdleNames
    /\ IdleRegistry

\* the partition file the writer makes of one slice of the column with
\* as_audioint16 (parsers.py 47-112): field "x" dense or ragged as the
\* lengths of the slice's rows decide, and its file names "y"
encoded_partition(part, paths) ==
    LET vlen == Cardinality(observed_lens(paths)) > 1
        num_samples ==
            read_audio_metadata(paths[Len(paths)]).num_samples_per_channel
    IN [kind |-> "h5",
        part |-> part,
        data |-> [f \in FieldNames |->
                    IF f = "x"
                    THEN [shape |-> IF vlen THEN <<Len(paths)>>
                                    ELSE <<Len(paths), num_samples>>,
                          dtype |-> IF vlen THEN "vlen_int16" ELSE "int16"]
                    ELSE [shape |-> <<Len(paths)>>, dtype |-> "str"]]]

\* cli/pack.py lines 248-340 with --create-virtual and two or more
\* partitions: every slice is encoded into its partition file, and the
\* virtual build is entered with the partitions
AudioRunWrite ==
    /\ planner = "pack"
    /\ plan_pc = "planned"
    /\ plan_n > 1
    /\ au_pc = "column"
    /\ vpc = "idle"
    /\ vparts' = [i \in 1..plan_n |->
                     encoded_partition(i - 1,
                         SubSeq(au_files, plan_slices[i][1] + 1,
                                plan_slices[i][2]))]
    /\ au_pc' = "written"
    /\ plan_written' = plan_n
    /\ vpc' = "start"
    /\ vidx' = 1
    /\ virtual_specs' = [f \in FieldNames |-> NoVirtualField]
    /\ accum_idx' = [f \in FieldNames |-> 0]
    /\ layouts' = [f \in FieldNames |-> <<>>]
    /\ UNCHANGED <<vout, verror, vopened, partition_specs>>
    /\ UNCHANGED <<vinput, vout_path, vuser_attrs, vchanged, vattrs>>
    /\ UNCHANGED <<planner, plan_total, plan_n, plan_fpp, plan_pc, plan_slices>>
    /\ UNCHANGED <<au_files, au_idx, au_observed_fs, au_error, au_examined,
                   au_group, au_unpacked>>
    /\ UNCHANGED <<ck_vars, name_vars, reg_vars, pack_vars>>

NextAudioRun ==
    PlanPack \/ AudioRunWrite \/ VCheck \/ VScan \/ VLayout \/ VWrite

SpecAudioRun == InitAudioRun /\ [][NextAudioRun]_vars

\* C27: in every pack run that creates more than one partition each field
\* has the same dtype and the same trailing dimensions in all partitions,
\* so the virtual build accepts the partitions of the run, whatever the
\* lengths of the rows of the audio column
C27_PartitionsOfOneRunStack ==
    au_pc = "written" =>
        /\ ~DtypeMismatch
        /\ ~TrailingMismatch
        /\ VTerminal => (vpc = "done" /\ verror = NoError)

\* ------------------------------------------------------------------------
\* A ledger recorded by the checksum command and verified afterwards:
\* cli/checksum.py cmd_checksum, both branches (SpecLedger)
\* ------------------------------------------------------------------------
LedgerDirs == {"top", "top/sub"}

LedgerNames == {"a.h5", "b.h5"}

\* the .h5 files below the folder "top": at most one per folder and name
LedgerTrees ==
    {t \in SUBSET [dir : LedgerDirs, name : LedgerNames, checksum : Digests] :
        \A f, g \in t : (f.dir = g.dir /\ f.name = g.name) => f = g}

\* the command's input: the file top/a.h5, or the folder top searched
\* with or without --recursive
LedgerInputs == {"file", "dir", "dir_recursive"}

\* lines 70-78: the files the ledger is recorded over, in sorted order of
\* their paths
all_files(tree, input) ==
    LET top == {f \in tree : f.dir = "top"}
        sub == {f \in tree : f.dir = "top/sub"}
        chosen == IF input = "file"
                  THEN {f \in top : f.name = "a.h5"}
                  ELSE IF input = "dir" THEN top
                  ELSE top \cup sub
        before(f, g) ==
            \/ f.dir = "top" /\ g.dir = "top/sub" /\ f.name = "a.h5"
            \/ f.dir = g.dir /\ f.name = "a.h5" /\ g.name = "b.h5"
            \/ f.dir = "top" /\ g.dir = "top/sub" /\ f.name = "b.h5"
        rank(f) == Cardinality({g \in chosen : before(g, f)}) + 1
    IN [i \in 1..Cardinality(chosen) |->
           CHOOSE f \in chosen : rank(f) = i]

\* os.path.basename(file)
basename(f) == f.name

\* os.path.join(root_dir, h5_filename) as the verification resolves it: the
\* file of that name in the ledger's folder, if there is one
resolve(tree, root_dir, h5_filename) ==
    LET hit == {f \in tree : f.dir = root_dir /\ f.name = h5_filename}
    IN IF hit = {} THEN [kind |-> "missing", checksum |-> "none"]
       ELSE [kind |-> "h5", checksum |-> (CHOOSE f \in hit : TRUE).checksum]

InitLedger ==
    /\ ck_tree \in LedgerTrees
    /\ ck_input \in LedgerInputs
    /\ ck_save_dir \in LedgerDirs
    /\ ck_lines = <<>>
    /\ ck_pc = "record"
    /\ ck_idx = 0
    /\ ck_report = <<>>
    /\ ck_error = 0
    /\ IdleAudio
    /\ IdleNames
    /\ IdleRegistry
    /\ IdlePlan
    /\ IdleVirtual
    /\ IdlePack

\* lines 69-115 with --save: one line "basename<TAB>checksum" per file; the
\* ledger is then read back by the verification from the folder it is in
RecordLedger ==
    /\ ck_pc = "record"
    /\ LET found == all_files(ck_tree, ck_input) IN
       IF Len(found) = 0
       THEN /\ ck_pc' = "no_files"
            /\ UNCHANGED <<ck_lines, ck_idx>>
       ELSE /\ ck_lines' =
                   [i \in 1..Len(found) |->
                       [file |-> resolve(ck_tree, ck_save_dir,
                                         basename(found[i])),
                        saved |-> get_file_checksum(found[i])]]
            /\ ck_idx' = 1
            /\ ck_pc' = "verify"
    /\ UNCHANGED <<ck_report, ck_error, ck_tree, ck_input, ck_save_dir>>
    /\ UNCHANGED <<audio_vars, name_vars, reg_vars, plan_vars, virt_vars, pack_vars>>

NextLedger == RecordLedger \/ VerifyLine

SpecLedger == InitLedger /\ [][NextLedger]_vars

\* C28: a ledger written by the record path and verified while the files
\* are unmodified reports a match for every line
C28_RecordedLedgerVerifies ==
    (ck_input # "none" /\ ck_pc \in {"done", "exit"}) =>
        /\ ck_pc = "done"
        /\ Len(ck_report) = Len(ck_lines)
        /\ \A i \in 1..Len(ck_report) : ck_report[i] = "OK"

\* ------------------------------------------------------------------------
\* The parser registry and the extractor map: data/__init__.py, the parser
\* attribute the encoders record, and the lookup of cmd_unpack
\* (SpecRegistry)
\* ------------------------------------------------------------------------
\* get_parsers_map(): column type -> the parser names a config may use
get_parsers_map ==
    [String |-> {"as_audioint16", "as_audiofloat32", "as_audiofloat64",
                 "as_utf8_str"},
     Int16 |-> {"as_int16"},
     Int32 |-> {"as_int16"},
     Int64 |-> {"as_int16"},
     Int128 |-> {"as_int16"},
     Float32 |-> {"as_float32", "as_float64"},
     Float64 |-> {"as_float32", "as_float64"}]

ColumnTypes == DOMAIN get_parsers_map

\* dataset.attrs["parser"] as the encoder registered under that name sets
\* it: the aliases pass parser_name, the string encoder writes its own
\* literal (parsers.py 357)
parser_attr(parser) ==
    IF parser = "as_utf8_str" THEN "as_utf8str" ELSE parser

\* the keys of get_extractors_map()
extractor_keys ==
    {"as_audioint16", "as_audiofloat32", "as_audiofloat64", "as_int16",
     "as_float32", "as_float64", "as_utf8_str"}

InitRegistry ==
    /\ rg_dtype \in ColumnTypes
    /\ rg_parser \in get_parsers_map[rg_dtype]
    /\ rg_rows \in 1..MaxRegRows
    /\ rg_pc = "pack"
    /\ rg_dataset = <<>>
    /\ rg_error = "none"
    /\ IdleAudio
    /\ IdleChecksum
    /\ IdleNames
    /\ IdlePlan
    /\ IdleVirtual
    /\ IdlePack

\* cli/utils.py 98-118: the encoder registered for the column type and the
\* parser name writes the field's data set and its parser attribute
PackField ==
    /\ rg_pc = "pack"
    /\ rg_dataset' = [shape |-> <<rg_rows>>, parser |-> parser_attr(rg_parser)]
    /\ rg_pc' = "packed"
    /\ UNCHANGED <<rg_dtype, rg_parser, rg_rows, rg_error>>
    /\ UNCHANGED <<audio_vars, ck_vars, name_vars, plan_vars, virt_vars,
                   pack_vars>>

\* cli/unpack.py 94-114: the extractor is looked up by the parser attribute
UnpackField ==
    /\ rg_pc = "packed"
    /\ IF rg_dataset.parser \in extractor_keys
       THEN rg_pc' = "unpacked" /\ rg_error' = rg_error
       ELSE rg_pc' = "unpack_error" /\ rg_error' = "KeyError"
    /\ UNCHANGED <<rg_dtype, rg_parser, rg_rows, rg_dataset>>
    /\ UNCHANGED <<audio_vars, ck_vars, name_vars, plan_vars, virt_vars,
                   pack_vars>>

NextRegistry == PackField \/ UnpackField

SpecRegistry == InitRegistry /\ [][NextRegistry]_vars

\* C29: the parser name an encoder of the registry records in the parser
\* attribute is a key of the extractor map, so unpack finds an extractor
\* for every field pack can write
C29_RecordedParserHasExtractor ==
    /\ rg_pc = "packed" => rg_dataset.parser \in extractor_keys
    /\ rg_pc # "unpack_error"


\* ------------------------------------------------------------------------
\* Partitions that do not hold the same fields (SpecVirtual)
\* ------------------------------------------------------------------------
FieldMissingSomewhere ==
    \E f \in FieldNames : \E i, j \in 1..Len(vparts) :
        Holds(i, f) /\ ~Holds(j, f)

\* C30: if a field is present in at least one partition of the list but
\* absent from another, the build never reaches the step that opens the
\* output file, ends in an error, and leaves the output path as it was
\* (not created when absent, not truncated when it existed).
C30_MissingFieldFailsBeforeWrite ==
    FieldMissingSomewhere =>
        /\ vpc \notin {"write", "done"}
        /\ VTerminal => vpc = "error"
        /\ vout \in {"absent", "old"}
        /\ layouts = [f \in FieldNames |-> <<>>]

\* three valid partitions that stack, the last without the "y" field: the
\* scan accepts all three and the layout step raises KeyError
C30_Witness ==
    /\ vpc = "error"
    /\ verror.kind = "key_error"
    /\ Len(vparts) = 3
    /\ AllPathsValid
    /\ Holds(1, "y") /\ Holds(2, "y") /\ ~Holds(3, "y")
    /\ \A i \in 1..3 : Holds(i, "x")
    /\ vopened = {1, 2, 3}
    /\ vout = "old"

====
